---------------------------- MODULE Spec2Model ----------------------------
(***************************************************************************)
(* The three behavioural classifiers of fluxa-UI (useBehaviorProfile,      *)
(* useInteractionMemory, useIntentDetection), the cursor-glow hook, the    *)
(* localStorage key-value store they share and the timers they own.        *)
(*                                                                         *)
(* A hook instance is the state React keeps for one call site of the hook: *)
(* its useState cells, its useRef cells and the effects still to run after *)
(* the last render.  An action is one handler call together with the       *)
(* render it causes; the passive effects of that render (persist, profile  *)
(* recomputation) are the separate Effects action, which React runs before *)
(* the next render.                                                        *)
(***************************************************************************)
EXTENDS Integers, Sequences, FiniteSets, TLC

VARIABLES
    now,        \* Date.now(), in milliseconds
    store,      \* localStorage: key -> <<>> (no entry) or <<serialized value>>
    behavior,   \* useBehaviorProfile instances, by call site
    memory,     \* useInteractionMemory instances, by call site
    intent,     \* useIntentDetection instances, by call site
    glow,       \* the useCursorGlow instance
    timers,     \* pending setTimeout timers: records [id, kind, owner, due]
    nextTimer,  \* the id the next setTimeout returns
    lastOp      \* the last operation that ran: [op, on]

vars == <<now, store, behavior, memory, intent, glow, timers, nextTimer, lastOp>>

-----------------------------------------------------------------------------
(* JavaScript numbers.  Integers of the program (counts, milliseconds,     *)
(* pixels) are TLA+ integers.  A number that comes out of a division is a  *)
(* record: a reduced fraction n/d (k = "fin", d > 0), an infinity          *)
(* (k = "inf", n = 1 or -1), NaN (k = "nan") or, after a JSON round trip   *)
(* of a non-finite number, null (k = "null").                              *)

RECURSIVE GCD(_, _)
GCD(a, b) ==
    IF b = 0 THEN a ELSE GCD(b, a % b)

Abs(a) ==
    IF a < 0 THEN -a ELSE a

Fin(n, d) ==
    LET g == GCD(Abs(n), Abs(d))
        s == IF d < 0 THEN -1 ELSE 1
    IN  [k |-> "fin", n |-> (s * n) \div g, d |-> (s * d) \div g]

Num(i) ==
    [k |-> "fin", n |-> i, d |-> 1]

PosInf ==
    [k |-> "inf", n |-> 1, d |-> 0]

NegInf ==
    [k |-> "inf", n |-> -1, d |-> 0]

NaN ==
    [k |-> "nan", n |-> 0, d |-> 0]

Null ==
    [k |-> "null", n |-> 0, d |-> 0]

\* ToNumber: null converts to 0 in arithmetic and comparisons.
ToNumber(x) ==
    IF x.k = "null" THEN Num(0) ELSE x

Sign(i) ==
    IF i > 0 THEN 1 ELSE IF i < 0 THEN -1 ELSE 0

Inf(s) ==
    IF s > 0 THEN PosInf ELSE NegInf

\* x + y
JAdd(x0, y0) ==
    LET x == ToNumber(x0)
        y == ToNumber(y0)
    IN  IF x.k = "nan" \/ y.k = "nan" THEN NaN
        ELSE IF x.k = "inf" /\ y.k = "inf" THEN (IF x.n = y.n THEN x ELSE NaN)
        ELSE IF x.k = "inf" THEN x
        ELSE IF y.k = "inf" THEN y
        ELSE Fin(x.n * y.d + y.n * x.d, x.d * y.d)

\* x * y
JMul(x0, y0) ==
    LET x == ToNumber(x0)
        y == ToNumber(y0)
    IN  IF x.k = "nan" \/ y.k = "nan" THEN NaN
        ELSE IF x.k = "inf" \/ y.k = "inf"
             THEN (IF x.n = 0 \/ y.n = 0 THEN NaN ELSE Inf(Sign(x.n) * Sign(y.n)))
        ELSE Fin(x.n * y.n, x.d * y.d)

JNeg(x) ==
    JMul(Num(-1), x)

\* x - y
JSub(x, y) ==
    JAdd(x, JNeg(y))

\* x / y: a non-zero number over 0 is an infinity, 0 / 0 is NaN.
JDiv(x0, y0) ==
    LET x == ToNumber(x0)
        y == ToNumber(y0)
    IN  IF x.k = "nan" \/ y.k = "nan" THEN NaN
        ELSE IF y.k = "inf" THEN (IF x.k = "inf" THEN NaN ELSE Num(0))
        ELSE IF y.n = 0
             THEN (IF x.n = 0 THEN NaN ELSE Inf(Sign(x.n)))
        ELSE IF x.k = "inf" THEN Inf(Sign(x.n) * Sign(y.n))
        ELSE Fin(x.n * y.d, x.d * y.n)

\* x < y: every comparison with NaN is false.
JLt(x0, y0) ==
    LET x == ToNumber(x0)
        y == ToNumber(y0)
    IN  IF x.k = "nan" \/ y.k = "nan" THEN FALSE
        ELSE IF x.k = "inf" THEN x.n < 0 /\ ~(y.k = "inf" /\ y.n < 0)
        ELSE IF y.k = "inf" THEN y.n > 0
        ELSE x.n * y.d < y.n * x.d

\* x > y
JGt(x, y) ==
    JLt(y, x)

\* Math.min(x, y): NaN if either is NaN.
MathMin(x0, y0) ==
    LET x == ToNumber(x0)
        y == ToNumber(y0)
    IN  IF x.k = "nan" \/ y.k = "nan" THEN NaN
        ELSE IF JLt(y, x) THEN y ELSE x

\* Math.max(x, y): NaN if either is NaN.
MathMax(x0, y0) ==
    LET x == ToNumber(x0)
        y == ToNumber(y0)
    IN  IF x.k = "nan" \/ y.k = "nan" THEN NaN
        ELSE IF JLt(x, y) THEN y ELSE x

\* Math.sqrt on the integers the model feeds it, rounded down.
MathSqrt(n) ==
    CHOOSE r \in 0..n : r * r <= n /\ (r + 1) * (r + 1) > n

\* array.slice(-k): the last k elements.
SliceLast(s, k) ==
    IF Len(s) <= k THEN s ELSE SubSeq(s, Len(s) - k + 1, Len(s))

\* array.reduce((a, b) => a + b, 0)
RECURSIVE SumSeq(_)
SumSeq(s) ==
    IF s = <<>> THEN 0 ELSE Head(s) + SumSeq(Tail(s))

\* JSON.stringify of a number: a non-finite number is written as null.
JsonNumber(x) ==
    IF x.k \in {"inf", "nan"} THEN Null ELSE x


-----------------------------------------------------------------------------
(* The page.  Home renders each cognitive component and, while the debug   *)
(* panel is shown, its debug view: two call sites of the same hook with    *)
(* the same id.                                                            *)

Instances ==
    {"component", "debug"}

\* The id Home passes to CognitiveButton and to CognitiveButtonDebug.
BehaviorId(i) ==
    "demo-cognitive-btn"

\* The id Home passes to MemoryCard and to MemoryCardDebug.
MemoryId(i) ==
    "demo-memory-card"

\* storageKey of useBehaviorProfile
BehaviorKey(i) ==
    <<"cognitive_btn_", BehaviorId(i)>>

\* storageKey of useInteractionMemory
MemoryKey(i) ==
    <<"memory_card_", MemoryId(i)>>

Keys ==
    {BehaviorKey(i) : i \in Instances} \cup {MemoryKey(i) : i \in Instances}

\* localStorage.getItem: <<>> stands for null.
GetItem(key) ==
    store[key]

\* localStorage.setItem
SetItem(st, key, text) ==
    [st EXCEPT ![key] = <<text>>]

\* localStorage.removeItem
RemoveItem(st, key) ==
    [st EXCEPT ![key] = <<>>]

\* JSON.parse of a text JSON.stringify wrote: the value it carries.
JSONparse(text) ==
    text.value

\* A stored text that is not JSON: JSON.parse throws a SyntaxError on it.
MalformedText ==
    [text |-> "malformed", value |-> <<>>]

\* JSON.parse(text) returns.
Parses(text) ==
    text.text = "json"

-----------------------------------------------------------------------------
(* useBehaviorProfile                                                      *)

getDefaultMetrics ==
    [ hoverCount           |-> 0,
      totalHoverDuration   |-> 0,
      averageHoverDuration |-> Num(0),
      hoverVelocity        |-> <<>>,
      clickCount           |-> 0,
      clickSpeed           |-> <<>>,
      doubleClickCount     |-> 0,
      hoverWithoutClick    |-> 0,
      approachRetreatCount |-> 0,
      directApproaches     |-> 0,
      lastInteractionTime  |-> 0 ]

\* The literal the profile state starts with.
InitialProfile ==
    [ personality |-> "calm",
      confidence  |-> Fin(1, 2),
      engagement  |-> Fin(1, 2),
      familiarity |-> Num(0) ]

\* How many of the previous velocities onMouseMove keeps before appending.
HoverVelocityKeep ==
    20

\* How many of the previous click latencies onClick keeps before appending.
ClickSpeedKeep ==
    10

\* calculateProfile that tries the inviting rule before the assertive one.
calculateProfileInvitingFirst(metrics) ==
    LET totalInteractions == metrics.clickCount + metrics.hoverCount
        familiarity == MathMin(Num(1), JDiv(Num(totalInteractions), Num(50)))
        avgClickSpeed ==
            IF Len(metrics.clickSpeed) > 0
            THEN JDiv(Num(SumSeq(metrics.clickSpeed)), Num(Len(metrics.clickSpeed)))
            ELSE Num(1000)
        clickSpeedConfidence ==
            MathMax(Num(0), JSub(Num(1), JDiv(avgClickSpeed, Num(2000))))
        directApproachRatio ==
            IF metrics.hoverCount > 0
            THEN JDiv(Num(metrics.directApproaches), Num(metrics.hoverCount))
            ELSE Num(0)
        confidence ==
            JAdd(JMul(clickSpeedConfidence, Fin(6, 10)),
                 JMul(directApproachRatio, Fin(4, 10)))
        hoverEngagement ==
            MathMin(Num(1), JDiv(metrics.averageHoverDuration, Num(1500)))
        retreatPenalty ==
            MathMin(Fin(1, 2), JMul(Num(metrics.approachRetreatCount), Fin(1, 10)))
        engagement == MathMax(Num(0), JSub(hoverEngagement, retreatPenalty))
        personality ==
            IF JGt(familiarity, Fin(7, 10)) /\ JGt(confidence, Fin(6, 10))
            THEN "calm"
            ELSE IF metrics.hoverWithoutClick > 5 \/ metrics.approachRetreatCount > 3
            THEN "inviting"
            ELSE IF JGt(confidence, Fin(7, 10)) /\ metrics.directApproaches > 3
            THEN "assertive"
            ELSE IF JGt(engagement, Fin(6, 10))
                    /\ JGt(metrics.averageHoverDuration, Num(800))
            THEN "curious"
            ELSE IF metrics.approachRetreatCount > 1 \/ JGt(avgClickSpeed, Num(1500))
            THEN "hesitant"
            ELSE "calm"
    IN  [ personality |-> personality,
          confidence  |-> MathMin(Num(1), MathMax(Num(0), confidence)),
          engagement  |-> MathMin(Num(1), MathMax(Num(0), engagement)),
          familiarity |-> familiarity ]

calculateProfile(metrics) ==
    LET totalInteractions == metrics.clickCount + metrics.hoverCount
        familiarity == MathMin(Num(1), JDiv(Num(totalInteractions), Num(50)))
        avgClickSpeed ==
            IF Len(metrics.clickSpeed) > 0
            THEN JDiv(Num(SumSeq(metrics.clickSpeed)), Num(Len(metrics.clickSpeed)))
            ELSE Num(1000)
        clickSpeedConfidence ==
            MathMax(Num(0), JSub(Num(1), JDiv(avgClickSpeed, Num(2000))))
        directApproachRatio ==
            IF metrics.hoverCount > 0
            THEN JDiv(Num(metrics.directApproaches), Num(metrics.hoverCount))
            ELSE Num(0)
        confidence ==
            JAdd(JMul(clickSpeedConfidence, Fin(6, 10)),
                 JMul(directApproachRatio, Fin(4, 10)))
        hoverEngagement ==
            MathMin(Num(1), JDiv(metrics.averageHoverDuration, Num(1500)))
        retreatPenalty ==
            MathMin(Fin(1, 2), JMul(Num(metrics.approachRetreatCount), Fin(1, 10)))
        engagement == MathMax(Num(0), JSub(hoverEngagement, retreatPenalty))
        personality ==
            IF JGt(familiarity, Fin(7, 10)) /\ JGt(confidence, Fin(6, 10))
            THEN "calm"
            ELSE IF JGt(confidence, Fin(7, 10)) /\ metrics.directApproaches > 3
            THEN "assertive"
            ELSE IF metrics.hoverWithoutClick > 5 \/ metrics.approachRetreatCount > 3
            THEN "inviting"
            ELSE IF JGt(engagement, Fin(6, 10))
                    /\ JGt(metrics.averageHoverDuration, Num(800))
            THEN "curious"
            ELSE IF metrics.approachRetreatCount > 1 \/ JGt(avgClickSpeed, Num(1500))
            THEN "hesitant"
            ELSE "calm"
    IN  [ personality |-> personality,
          confidence  |-> MathMin(Num(1), MathMax(Num(0), confidence)),
          engagement  |-> MathMin(Num(1), MathMax(Num(0), engagement)),
          familiarity |-> familiarity ]

\* A serializer that leaves averageHoverDuration out (a reader finds 0).
StringifyMetricsTruncated(metrics) ==
    [ text  |-> "json",
      value |-> [metrics EXCEPT
                   !.averageHoverDuration = Num(0),
                   !.hoverVelocity = [k \in DOMAIN @ |-> JsonNumber(@[k])]] ]

\* JSON.stringify(metrics)
StringifyMetrics(metrics) ==
    [ text  |-> "json",
      value |-> [metrics EXCEPT
                   !.averageHoverDuration = JsonNumber(@),
                   !.hoverVelocity = [k \in DOMAIN @ |-> JsonNumber(@[k])]] ]

\* A call site where the hook is not mounted.  synced is a history field:
\* the entry this call site last read from, wrote to or removed from the store.
\* lastClickTime is a history field too: the time of the last onClick the
\* metrics of this instance count (<<>> when they count none).
BehaviorUnmounted ==
    [ mounted               |-> FALSE,
      metrics               |-> getDefaultMetrics,
      profile               |-> InitialProfile,
      hoverStartTime        |-> 0,
      lastMousePosition     |-> <<>>,
      isHovering            |-> FALSE,
      approachStartDistance |-> <<>>,
      synced                |-> <<>>,
      lastClickTime         |-> <<>>,
      failed                |-> FALSE,
      pending               |-> FALSE ]

\* A first render that does not read the store.
BehaviorFirstRenderIgnoresStore(i) ==
    [ BehaviorUnmounted EXCEPT
        !.mounted = TRUE,
        !.synced = GetItem(BehaviorKey(i)),
        !.pending = TRUE ]

\* The first render of the hook: the metrics come from the store, the profile
\* is the literal, the refs are fresh and both effects are still to run.  When
\* JSON.parse throws, the exception leaves the useState initialiser and the
\* render of the caller fails: the hook is not mounted.
BehaviorFirstRender(i) ==
    LET stored == GetItem(BehaviorKey(i))
    IN  IF stored # <<>> /\ ~Parses(stored[1])
        THEN [BehaviorUnmounted EXCEPT !.failed = TRUE]
        ELSE
        [ BehaviorUnmounted EXCEPT
            !.mounted = TRUE,
            !.metrics = IF stored # <<>> THEN JSONparse(stored[1])
                        ELSE getDefaultMetrics,
            !.synced = stored,
            !.pending = TRUE ]

BehaviorMount(i) ==
    /\ ~behavior[i].mounted
    /\ behavior' = [behavior EXCEPT ![i] = BehaviorFirstRender(i)]
    /\ lastOp' = [op |-> "mount", on |-> i]
    /\ UNCHANGED <<now, store, memory, intent, glow, timers, nextTimer>>

\* The two effects on [metrics]: persist, then recompute the profile.
BehaviorEffectsResult(b) ==
    [b EXCEPT
       !.profile = calculateProfile(b.metrics),
       !.synced = <<StringifyMetrics(b.metrics)>>,
       !.pending = FALSE]

BehaviorEffects(i) ==
    /\ behavior[i].mounted
    /\ behavior[i].pending
    /\ store' = SetItem(store, BehaviorKey(i), StringifyMetrics(behavior[i].metrics))
    /\ behavior' = [behavior EXCEPT ![i] = BehaviorEffectsResult(behavior[i])]
    /\ UNCHANGED <<now, memory, intent, glow, timers, nextTimer, lastOp>>

\* A handler runs on a mounted instance once the effects of the previous
\* render have run.
BehaviorReady(i) ==
    /\ behavior[i].mounted
    /\ \A j \in Instances : ~behavior[j].pending

onHoverStartResult(b, x, y) ==
    [b EXCEPT
       !.hoverStartTime = now,
       !.isHovering = TRUE,
       !.lastMousePosition = <<x, y>>,
       !.metrics = [@ EXCEPT !.hoverCount = @ + 1, !.lastInteractionTime = now],
       !.pending = TRUE]

onHoverStart(i, x, y) ==
    /\ BehaviorReady(i)
    /\ behavior' = [behavior EXCEPT ![i] = onHoverStartResult(behavior[i], x, y)]
    /\ lastOp' = [op |-> "onHoverStart", on |-> i]
    /\ UNCHANGED <<now, store, memory, intent, glow, timers, nextTimer>>

\* onHoverEnd that takes back the count of a hover that ends in the
\* millisecond it started.
onHoverEndDropsEmptyHover(b) ==
    LET duration == now - b.hoverStartTime
        newTotalDuration == b.metrics.totalHoverDuration + duration
        newHoverCount == IF duration = 0 THEN b.metrics.hoverCount - 1
                         ELSE b.metrics.hoverCount
    IN  [b EXCEPT
           !.isHovering = FALSE,
           !.metrics = [@ EXCEPT
              !.hoverCount = newHoverCount,
              !.totalHoverDuration = newTotalDuration,
              !.averageHoverDuration = JDiv(Num(newTotalDuration), Num(newHoverCount)),
              !.hoverWithoutClick = @ + 1],
           !.pending = TRUE]

onHoverEndResult(b) ==
    LET duration == now - b.hoverStartTime
        newTotalDuration == b.metrics.totalHoverDuration + duration
        newHoverCount == b.metrics.hoverCount
    IN  [b EXCEPT
           !.isHovering = FALSE,
           !.metrics = [@ EXCEPT
              !.totalHoverDuration = newTotalDuration,
              !.averageHoverDuration = JDiv(Num(newTotalDuration), Num(newHoverCount)),
              !.hoverWithoutClick = @ + 1],
           !.pending = TRUE]

onHoverEnd(i) ==
    /\ BehaviorReady(i)
    /\ behavior[i].isHovering
    /\ behavior' = [behavior EXCEPT ![i] = onHoverEndResult(behavior[i])]
    /\ lastOp' = [op |-> "onHoverEnd", on |-> i]
    /\ UNCHANGED <<now, store, memory, intent, glow, timers, nextTimer>>

\* buttonRect, the bounding box CognitiveButton passes: its centre is (40, 0).
ButtonRect ==
    [left |-> 30, top |-> -10, width |-> 20, height |-> 20]

\* hoverVelocity after one more velocity.
AppendVelocity(hoverVelocity, velocity) ==
    SliceLast(hoverVelocity, HoverVelocityKeep) \o <<Num(velocity)>>

onMouseMoveResult(b, x, y) ==
    IF b.lastMousePosition = <<>>
    THEN [b EXCEPT !.lastMousePosition = <<x, y>>]
    ELSE
    LET dx == x - b.lastMousePosition[1]
        dy == y - b.lastMousePosition[2]
        velocity == MathSqrt(dx * dx + dy * dy)
        buttonCenterX == ButtonRect.left + ButtonRect.width \div 2
        buttonCenterY == ButtonRect.top + ButtonRect.height \div 2
        currentDistance ==
            MathSqrt((x - buttonCenterX) * (x - buttonCenterX)
                     + (y - buttonCenterY) * (y - buttonCenterY))
        startDistance ==
            IF b.approachStartDistance = <<>> THEN currentDistance
            ELSE b.approachStartDistance[1]
        direct == velocity > 15 /\ 2 * currentDistance < startDistance
        m1 == IF direct
              THEN [b.metrics EXCEPT !.directApproaches = @ + 1]
              ELSE b.metrics
        m2 == IF b.isHovering
              THEN [m1 EXCEPT !.hoverVelocity = AppendVelocity(@, velocity)]
              ELSE m1
    IN  [b EXCEPT
           !.approachStartDistance = <<startDistance>>,
           !.metrics = m2,
           !.pending = direct \/ b.isHovering,
           !.lastMousePosition = <<x, y>>]

onMouseMove(i, x, y) ==
    /\ BehaviorReady(i)
    /\ behavior' = [behavior EXCEPT ![i] = onMouseMoveResult(behavior[i], x, y)]
    /\ lastOp' = [op |-> "onMouseMove", on |-> i]
    /\ UNCHANGED <<now, store, memory, intent, glow, timers, nextTimer>>

\* clickSpeed after one more latency.
AppendClickSpeed(clickSpeed, clickTime) ==
    SliceLast(clickSpeed, ClickSpeedKeep) \o <<clickTime>>

\* onClick that records the time of the click, not the time since the hover
\* started.
onClickRecordsClock(b) ==
    LET clickTime == now
        prev == b.metrics
        isDoubleClick ==
            Len(prev.clickSpeed) > 0 /\ now - prev.lastInteractionTime < 400
    IN  [b EXCEPT
           !.metrics = [prev EXCEPT
              !.clickCount = @ + 1,
              !.clickSpeed = AppendClickSpeed(@, clickTime),
              !.doubleClickCount = IF isDoubleClick THEN @ + 1 ELSE @,
              !.hoverWithoutClick = IF @ - 1 > 0 THEN @ - 1 ELSE 0,
              !.lastInteractionTime = now],
           !.lastClickTime = <<now>>,
           !.pending = TRUE]

onClickResult(b) ==
    LET clickTime == now - b.hoverStartTime
        prev == b.metrics
        isDoubleClick ==
            Len(prev.clickSpeed) > 0 /\ now - prev.lastInteractionTime < 400
    IN  [b EXCEPT
           !.metrics = [prev EXCEPT
              !.clickCount = @ + 1,
              !.clickSpeed = AppendClickSpeed(@, clickTime),
              !.doubleClickCount = IF isDoubleClick THEN @ + 1 ELSE @,
              !.hoverWithoutClick = IF @ - 1 > 0 THEN @ - 1 ELSE 0,
              !.lastInteractionTime = now],
           !.lastClickTime = <<now>>,
           !.pending = TRUE]

onClick(i) ==
    /\ BehaviorReady(i)
    /\ behavior' = [behavior EXCEPT ![i] = onClickResult(behavior[i])]
    /\ lastOp' = [op |-> "onClick", on |-> i]
    /\ UNCHANGED <<now, store, memory, intent, glow, timers, nextTimer>>

onApproachRetreatResult(b) ==
    [b EXCEPT
       !.metrics = [@ EXCEPT !.approachRetreatCount = @ + 1],
       !.approachStartDistance = <<>>,
       !.pending = TRUE]

onApproachRetreat(i) ==
    /\ BehaviorReady(i)
    /\ behavior' = [behavior EXCEPT ![i] = onApproachRetreatResult(behavior[i])]
    /\ lastOp' = [op |-> "onApproachRetreat", on |-> i]
    /\ UNCHANGED <<now, store, memory, intent, glow, timers, nextTimer>>

\* resetProfile: the metrics state is set to the defaults (the refs are not
\* touched) and the entry is removed; the render this causes leaves the two
\* effects on [metrics] to run.
resetProfileKeepsHoverCount(b) ==
    [b EXCEPT
       !.metrics = [getDefaultMetrics EXCEPT !.hoverCount = b.metrics.hoverCount],
       !.synced = <<>>,
       !.lastClickTime = <<>>,
       !.pending = TRUE]

resetProfileResult(b) ==
    [b EXCEPT !.metrics = getDefaultMetrics, !.synced = <<>>,
              !.lastClickTime = <<>>, !.pending = TRUE]

resetProfile(i) ==
    /\ BehaviorReady(i)
    /\ behavior' = [behavior EXCEPT ![i] = resetProfileResult(behavior[i])]
    /\ store' = RemoveItem(store, BehaviorKey(i))
    /\ lastOp' = [op |-> "resetProfile", on |-> i]
    /\ UNCHANGED <<now, memory, intent, glow, timers, nextTimer>>

-----------------------------------------------------------------------------
(* Timers: setTimeout returns a fresh id and leaves a pending timer;       *)
(* clearTimeout removes the pending timer with that id, if there is one.   *)

\* The timers after setTimeout(callback of `kind` owned by `owner`, delay).
SetTimeout(ts, id, kind, owner, delay) ==
    ts \cup {[id |-> id, kind |-> kind, owner |-> owner, due |-> now + delay]}

\* The timers after clearTimeout(ref.current); ref is <<>> for null.
ClearTimeout(ts, ref) ==
    IF ref = <<>> THEN ts ELSE {t \in ts : t.id # ref[1]}

-----------------------------------------------------------------------------
(* useInteractionMemory.  recognitionLevel is kept in millionths (an       *)
(* integer in 0..1000000), each product rounded down to a millionth; the   *)
(* other fractions are exact.                                              *)

getDefaultMemory ==
    [ visitCount           |-> 0,
      totalTimeSpent       |-> 0,
      layers               |-> <<>>,
      lastVisit            |-> 0,
      recognitionLevel     |-> 0,
      revealProgress       |-> Num(0),
      preferredRevealSpeed |-> "medium" ]

InitialSession ==
    [startTime |-> 0, focusPoints |-> <<>>, isActive |-> FALSE, scrollDepth |-> Num(0)]

\* How many of the previous layers onLeave keeps before appending.
LayersKeep ==
    50

\* How many of the previous focus points onMouseMove keeps before appending.
FocusPointsKeep ==
    50

\* How many focus points of the session a layer records.
LayerFocusPoints ==
    20

\* How many of the previous layers count for preferredRevealSpeed.
RecentLayers ==
    5

SevenDays ==
    7 * 24 * 60 * 60 * 1000

One ==
    1000 * 1000

\* p * q of two numbers in millionths, rounded down to a millionth.
MulMillionths(p, q) ==
    LET a == (p \div 1000) * q
        b == (p % 1000) * q
    IN  (a \div 1000) + ((a % 1000) * 1000 + b) \div One

\* const timeSinceLastVisit = memory.lastVisit ? Date.now() - memory.lastVisit : Infinity,
\* evaluated by the render at renderTime.
timeSinceLastVisit(m) ==
    IF m.memory.lastVisit # 0 THEN Num(m.renderTime - m.memory.lastVisit) ELSE PosInf

isReturningUser(m) ==
    JGt(timeSinceLastVisit(m), Num(60000)) /\ m.memory.visitCount > 0

\* Math.max(0.5, 1 - timeSinceLastVisit / SevenDays), in millionths:
\* One / SevenDays is 10 / 6048.
decayFactor(tslv) ==
    IF tslv.k = "inf" \/ tslv.n >= SevenDays \div 2
    THEN One \div 2
    ELSE LET t == tslv.n
             lost == (t \div 6048) * 10 + ((t % 6048) * 10) \div 6048
         IN  IF One - lost < One \div 2 THEN One \div 2 ELSE One - lost

RECURSIVE totalMovementFrom(_, _)
totalMovementFrom(points, i) ==
    IF i > Len(points) THEN 0
    ELSE LET dx == points[i][1] - points[i - 1][1]
             dy == points[i][2] - points[i - 1][2]
         IN  MathSqrt(dx * dx + dy * dy) + totalMovementFrom(points, i + 1)

calculateAverageMovement(points) ==
    IF Len(points) < 2 THEN Num(0)
    ELSE JDiv(Num(totalMovementFrom(points, 2)), Num(Len(points) - 1))

\* currentMood
currentMood(mem) ==
    IF Len(mem.layers) > 0 THEN mem.layers[Len(mem.layers)].emotionalSignature
    ELSE "curious"

\* JSON.stringify(memory)
StringifyMemory(mem) ==
    [ text  |-> "json",
      value |-> [mem EXCEPT
                   !.revealProgress = JsonNumber(@),
                   !.layers = [k \in DOMAIN @ |->
                                 [@[k] EXCEPT !.scrollDepth = JsonNumber(@)]]] ]

MemoryUnmounted ==
    [ mounted        |-> FALSE,
      memory         |-> getDefaultMemory,
      currentSession |-> InitialSession,
      hoverTimeout   |-> <<>>,
      studyTimeout   |-> <<>>,
      renderTime     |-> 0,
      failed         |-> FALSE,
      pending        |-> FALSE ]

MemoryFirstRender(i) ==
    LET stored == GetItem(MemoryKey(i))
    IN  IF stored # <<>> /\ ~Parses(stored[1])
        THEN [MemoryUnmounted EXCEPT !.failed = TRUE]
        ELSE
        [ MemoryUnmounted EXCEPT
            !.mounted = TRUE,
            !.memory = IF stored # <<>> THEN JSONparse(stored[1])
                       ELSE getDefaultMemory,
            !.renderTime = now,
            !.pending = TRUE ]

MemoryMount(i) ==
    /\ ~memory[i].mounted
    /\ memory' = [memory EXCEPT ![i] = MemoryFirstRender(i)]
    /\ lastOp' = [op |-> "mountMemory", on |-> i]
    /\ UNCHANGED <<now, store, behavior, intent, glow, timers, nextTimer>>

\* The effect on [memory]: persist.
MemoryEffects(i) ==
    /\ memory[i].mounted
    /\ memory[i].pending
    /\ store' = SetItem(store, MemoryKey(i), StringifyMemory(memory[i].memory))
    /\ memory' = [memory EXCEPT ![i].pending = FALSE]
    /\ UNCHANGED <<now, behavior, intent, glow, timers, nextTimer, lastOp>>

MemoryReady(i) ==
    /\ memory[i].mounted
    /\ \A j \in Instances : ~memory[j].pending

\* The component that calls the hook renders again (MemoryCard does every
\* 50 ms): the values the hook derives from Date.now() are evaluated anew.
MemoryRender(i) ==
    /\ MemoryReady(i)
    /\ memory[i].renderTime # now
    /\ memory' = [memory EXCEPT ![i].renderTime = now]
    /\ lastOp' = [op |-> "renderMemory", on |-> i]
    /\ UNCHANGED <<now, store, behavior, intent, glow, timers, nextTimer>>

onEnter(i) ==
    /\ MemoryReady(i)
    /\ memory' = [memory EXCEPT ![i] =
         [@ EXCEPT
            !.currentSession = [startTime |-> now, focusPoints |-> <<>>,
                                isActive |-> TRUE, scrollDepth |-> Num(0)],
            !.hoverTimeout = <<nextTimer>>,
            !.studyTimeout = <<nextTimer + 1>>,
            !.renderTime = now]]
    /\ timers' = SetTimeout(SetTimeout(timers, nextTimer, "hover", i, 500),
                            nextTimer + 1, "study", i, 2000)
    /\ nextTimer' = nextTimer + 2
    /\ lastOp' = [op |-> "onEnter", on |-> i]
    /\ UNCHANGED <<now, store, behavior, intent, glow>>

\* newLayer that calls thorough every deeply scrolled session long enough to
\* be a study.
newLayerThoroughFromStudy(m) ==
    LET duration == now - m.currentSession.startTime
        interactionType ==
            IF isReturningUser(m) THEN "return"
            ELSE IF duration < 500 THEN "glance"
            ELSE IF duration < 2000 THEN "engage"
            ELSE "study"
        avgMovement == calculateAverageMovement(m.currentSession.focusPoints)
        emotionalSignature ==
            IF JGt(avgMovement, Num(50)) /\ duration < 1000 THEN "impatient"
            ELSE IF duration >= 2000 /\ JGt(m.currentSession.scrollDepth, Fin(1, 2))
            THEN "thorough"
            ELSE IF JGt(avgMovement, Num(30)) THEN "distracted"
            ELSE "curious"
    IN  [ timestamp          |-> now,
          interactionType    |-> interactionType,
          duration           |-> duration,
          focusPoints        |-> SliceLast(m.currentSession.focusPoints, LayerFocusPoints),
          scrollDepth        |-> m.currentSession.scrollDepth,
          emotionalSignature |-> emotionalSignature ]

\* The layer onLeave builds from the session of the last render.
newLayer(m) ==
    LET duration == now - m.currentSession.startTime
        interactionType ==
            IF isReturningUser(m) THEN "return"
            ELSE IF duration < 500 THEN "glance"
            ELSE IF duration < 2000 THEN "engage"
            ELSE "study"
        avgMovement == calculateAverageMovement(m.currentSession.focusPoints)
        emotionalSignature ==
            IF JGt(avgMovement, Num(50)) /\ duration < 1000 THEN "impatient"
            ELSE IF duration > 3000 /\ JGt(m.currentSession.scrollDepth, Fin(1, 2))
            THEN "thorough"
            ELSE IF JGt(avgMovement, Num(30)) THEN "distracted"
            ELSE "curious"
    IN  [ timestamp          |-> now,
          interactionType    |-> interactionType,
          duration           |-> duration,
          focusPoints        |-> SliceLast(m.currentSession.focusPoints, LayerFocusPoints),
          scrollDepth        |-> m.currentSession.scrollDepth,
          emotionalSignature |-> emotionalSignature ]

\* layers with the layer put in front of the last 50 instead of after them.
AppendLayerInFront(layers, layer) ==
    <<layer>> \o SliceLast(layers, LayersKeep)

\* layers after one more layer.
AppendLayer(layers, layer) ==
    SliceLast(layers, LayersKeep) \o <<layer>>

\* The updater without the Math.min(1, ...) around revealProgress.
leaveMemoryUnclampedReveal(prev, layer, tslv) ==
    LET recognitionGrowth ==
            (One \div 10) * (IF layer.interactionType = "study" THEN 2 ELSE 1)
        grown == MulMillionths(prev.recognitionLevel, decayFactor(tslv))
                 + recognitionGrowth
        revealIncrease ==
            IF layer.interactionType = "study" THEN Fin(15, 100)
            ELSE IF layer.interactionType = "engage" THEN Fin(8, 100)
            ELSE IF layer.interactionType = "return" THEN Fin(10, 100)
            ELSE Fin(2, 100)
        recentLayers == SliceLast(prev.layers, RecentLayers) \o <<layer>>
        avgDuration ==
            JDiv(Num(SumSeq([k \in DOMAIN recentLayers |-> recentLayers[k].duration])),
                 Num(Len(recentLayers)))
    IN  [ visitCount           |-> prev.visitCount + 1,
          totalTimeSpent       |-> prev.totalTimeSpent + layer.duration,
          layers               |-> AppendLayer(prev.layers, layer),
          lastVisit            |-> now,
          recognitionLevel     |-> IF grown > One THEN One ELSE grown,
          revealProgress       |-> JAdd(prev.revealProgress, revealIncrease),
          preferredRevealSpeed |-> IF JGt(avgDuration, Num(3000)) THEN "slow"
                                   ELSE IF JGt(avgDuration, Num(1500)) THEN "medium"
                                   ELSE "fast" ]

\* The updater onLeave passes to setMemory.
leaveMemory(prev, layer, tslv) ==
    LET recognitionGrowth ==
            (One \div 10) * (IF layer.interactionType = "study" THEN 2 ELSE 1)
        grown == MulMillionths(prev.recognitionLevel, decayFactor(tslv))
                 + recognitionGrowth
        revealIncrease ==
            IF layer.interactionType = "study" THEN Fin(15, 100)
            ELSE IF layer.interactionType = "engage" THEN Fin(8, 100)
            ELSE IF layer.interactionType = "return" THEN Fin(10, 100)
            ELSE Fin(2, 100)
        recentLayers == SliceLast(prev.layers, RecentLayers) \o <<layer>>
        avgDuration ==
            JDiv(Num(SumSeq([k \in DOMAIN recentLayers |-> recentLayers[k].duration])),
                 Num(Len(recentLayers)))
    IN  [ visitCount           |-> prev.visitCount + 1,
          totalTimeSpent       |-> prev.totalTimeSpent + layer.duration,
          layers               |-> AppendLayer(prev.layers, layer),
          lastVisit            |-> now,
          recognitionLevel     |-> IF grown > One THEN One ELSE grown,
          revealProgress       |-> MathMin(Num(1), JAdd(prev.revealProgress, revealIncrease)),
          preferredRevealSpeed |-> IF JGt(avgDuration, Num(3000)) THEN "slow"
                                   ELSE IF JGt(avgDuration, Num(1500)) THEN "medium"
                                   ELSE "fast" ]

onLeave(i) ==
    /\ MemoryReady(i)
    /\ memory[i].currentSession.isActive
    /\ timers' = ClearTimeout(ClearTimeout(timers, memory[i].hoverTimeout),
                              memory[i].studyTimeout)
    /\ memory' = [memory EXCEPT ![i] =
         [@ EXCEPT
            !.memory = leaveMemory(@, newLayer(memory[i]), timeSinceLastVisit(memory[i])),
            !.currentSession = [@ EXCEPT !.isActive = FALSE],
            !.renderTime = now,
            !.pending = TRUE]]
    /\ lastOp' = [op |-> "onLeave", on |-> i]
    /\ UNCHANGED <<now, store, behavior, intent, glow, nextTimer>>

\* focusPoints after one more point.
AppendFocusPoint(focusPoints, point) ==
    SliceLast(focusPoints, FocusPointsKeep) \o <<point>>

onMouseMoveMemory(i, x, y) ==
    /\ MemoryReady(i)
    /\ memory[i].currentSession.isActive
    /\ memory' = [memory EXCEPT ![i] =
         [@ EXCEPT
            !.currentSession = [@ EXCEPT
                !.focusPoints = AppendFocusPoint(@, <<x, y>>)],
            !.renderTime = now]]
    /\ lastOp' = [op |-> "onMouseMoveMemory", on |-> i]
    /\ UNCHANGED <<now, store, behavior, intent, glow, timers, nextTimer>>

onScrollMemory(i, depth) ==
    /\ MemoryReady(i)
    /\ memory' = [memory EXCEPT ![i] =
         [@ EXCEPT
            !.currentSession = [@ EXCEPT !.scrollDepth = MathMax(@, depth)],
            !.renderTime = now]]
    /\ lastOp' = [op |-> "onScrollMemory", on |-> i]
    /\ UNCHANGED <<now, store, behavior, intent, glow, timers, nextTimer>>

\* resetMemory: the memory state is set to the defaults (the session and the
\* timers are not touched) and the entry is removed; the render this causes
\* leaves the effect on [memory] to run.
resetMemory(i) ==
    /\ MemoryReady(i)
    /\ memory' = [memory EXCEPT ![i] =
         [@ EXCEPT !.memory = getDefaultMemory, !.renderTime = now, !.pending = TRUE]]
    /\ store' = RemoveItem(store, MemoryKey(i))
    /\ lastOp' = [op |-> "resetMemory", on |-> i]
    /\ UNCHANGED <<now, behavior, intent, glow, timers, nextTimer>>

-----------------------------------------------------------------------------
(* useIntentDetection                                                      *)

\* The signals state the hook starts with and resetSignals sets.
DefaultSignals ==
    [ scrollPatterns   |-> <<>>,
      focusEvents      |-> <<>>,
      pauseCount       |-> 0,
      directionChanges |-> 0,
      averageVelocity  |-> Num(0),
      timeOnSurface    |-> 0,
      lastActivity     |-> now ]

\* The literal the profile state starts with.
InitialIntentProfile ==
    [ currentIntent   |-> "browsing",
      confidence      |-> Fin(1, 2),
      attention       |-> Fin(1, 2),
      urgency         |-> Fin(3, 10),
      suggestedLayout |-> "expanded" ]

\* How many of the previous scroll patterns onScroll keeps before appending.
ScrollPatternsKeep ==
    30

\* How many of the previous focus events onFocusChange keeps before appending.
FocusEventsKeep ==
    20

\* How many of the last scroll patterns calculateIntent reads.
RecentPatterns ==
    5

\* patterns.reduce((a, b) => a + b.velocity, 0)
RECURSIVE SumVelocity(_)
SumVelocity(patterns) ==
    IF patterns = <<>> THEN Num(0)
    ELSE JAdd(Head(patterns).velocity, SumVelocity(Tail(patterns)))

\* x || 0: 0 and NaN are falsy.
OrZero(x) ==
    IF x.k = "nan" \/ (x.k = "fin" /\ x.n = 0) THEN Num(0) ELSE x

suggestedLayout(currentIntent) ==
    CASE currentIntent = "searching" -> "compact"
      [] currentIntent = "reading"   -> "focused"
      [] currentIntent = "comparing" -> "expanded"
      [] currentIntent = "deciding"  -> "focused"
      [] currentIntent = "leaving"   -> "minimal"
      [] OTHER                       -> "expanded"

\* scrollPatterns.slice(-5).reduce((a, b) => a + b.velocity, 0) / 5 || 0
recentVelocityOf(signals) ==
    OrZero(JDiv(SumVelocity(SliceLast(signals.scrollPatterns, RecentPatterns)),
                Num(5)))

\* calculateIntent that tests the leaving rule first.
intentOfLeavingFirst(signals, idle) ==
    LET recentVelocity == recentVelocityOf(signals)
        recentPauses == signals.pauseCount
        recentDirectionChanges == signals.directionChanges
        avgFocusDuration ==
            IF Len(signals.focusEvents) > 0
            THEN JDiv(Num(SumSeq([k \in DOMAIN signals.focusEvents |->
                                    signals.focusEvents[k].duration])),
                      Num(Len(signals.focusEvents)))
            ELSE Num(0)
        scores ==
            IF idle \/ JGt(recentVelocity, Num(500))
            THEN <<"leaving", Fin(6, 10), Fin(2, 10), Fin(9, 10)>>
            ELSE IF JGt(recentVelocity, Num(300)) /\ recentPauses < 2
               /\ recentDirectionChanges < 3
            THEN <<"searching", MathMin(Fin(9, 10), JDiv(recentVelocity, Num(500))),
                   Fin(4, 10), Fin(8, 10)>>
            ELSE IF JLt(recentVelocity, Num(100)) /\ recentPauses > 3
                    /\ JGt(avgFocusDuration, Num(1000))
            THEN <<"reading", MathMin(Fin(9, 10), JDiv(avgFocusDuration, Num(3000))),
                   Fin(9, 10), Fin(1, 10)>>
            ELSE IF recentDirectionChanges > 5 /\ JGt(recentVelocity, Num(50))
                    /\ JLt(recentVelocity, Num(300))
            THEN <<"comparing", MathMin(Fin(85, 100), Fin(recentDirectionChanges, 10)),
                   Fin(7, 10), Fin(5, 10)>>
            ELSE IF recentPauses > 5 /\ JLt(recentVelocity, Num(50))
                    /\ JGt(avgFocusDuration, Num(500))
            THEN <<"deciding", MathMin(Fin(85, 100), Fin(recentPauses, 8)),
                   Fin(85, 100), Fin(6, 10)>>
            ELSE <<"browsing", Fin(5, 10), Fin(5, 10), Fin(3, 10)>>
    IN  [ currentIntent   |-> scores[1],
          confidence      |-> scores[2],
          attention       |-> scores[3],
          urgency         |-> scores[4],
          suggestedLayout |-> suggestedLayout(scores[1]) ]

\* The body of calculateIntent; idle is Date.now() - signals.lastActivity > 5000.
intentOf(signals, idle) ==
    LET recentVelocity == recentVelocityOf(signals)
        recentPauses == signals.pauseCount
        recentDirectionChanges == signals.directionChanges
        avgFocusDuration ==
            IF Len(signals.focusEvents) > 0
            THEN JDiv(Num(SumSeq([k \in DOMAIN signals.focusEvents |->
                                    signals.focusEvents[k].duration])),
                      Num(Len(signals.focusEvents)))
            ELSE Num(0)
        scores ==
            IF JGt(recentVelocity, Num(300)) /\ recentPauses < 2
               /\ recentDirectionChanges < 3
            THEN <<"searching", MathMin(Fin(9, 10), JDiv(recentVelocity, Num(500))),
                   Fin(4, 10), Fin(8, 10)>>
            ELSE IF JLt(recentVelocity, Num(100)) /\ recentPauses > 3
                    /\ JGt(avgFocusDuration, Num(1000))
            THEN <<"reading", MathMin(Fin(9, 10), JDiv(avgFocusDuration, Num(3000))),
                   Fin(9, 10), Fin(1, 10)>>
            ELSE IF recentDirectionChanges > 5 /\ JGt(recentVelocity, Num(50))
                    /\ JLt(recentVelocity, Num(300))
            THEN <<"comparing", MathMin(Fin(85, 100), Fin(recentDirectionChanges, 10)),
                   Fin(7, 10), Fin(5, 10)>>
            ELSE IF recentPauses > 5 /\ JLt(recentVelocity, Num(50))
                    /\ JGt(avgFocusDuration, Num(500))
            THEN <<"deciding", MathMin(Fin(85, 100), Fin(recentPauses, 8)),
                   Fin(85, 100), Fin(6, 10)>>
            ELSE IF idle \/ JGt(recentVelocity, Num(500))
            THEN <<"leaving", Fin(6, 10), Fin(2, 10), Fin(9, 10)>>
            ELSE <<"browsing", Fin(5, 10), Fin(5, 10), Fin(3, 10)>>
    IN  [ currentIntent   |-> scores[1],
          confidence      |-> scores[2],
          attention       |-> scores[3],
          urgency         |-> scores[4],
          suggestedLayout |-> suggestedLayout(scores[1]) ]

\* calculateIntent with the idle test after one second without activity.
calculateIntentIdleAfterOneSecond(signals, at) ==
    intentOf(signals, at - signals.lastActivity > 1000)

\* calculateIntent(signals), run when Date.now() is `at`.
calculateIntent(signals, at) ==
    intentOf(signals, at - signals.lastActivity > 5000)

\* A call site where the hook is not mounted.  profileAt is the time at which
\* the recompute effect last ran.
IntentUnmounted ==
    [ mounted             |-> FALSE,
      signals             |-> [DefaultSignals EXCEPT !.lastActivity = 0],
      profile             |-> InitialIntentProfile,
      lastScrollPosition  |-> 0,
      lastScrollTime      |-> 0,
      lastDirection       |-> "none",
      pauseTimer          |-> <<>>,
      surfaceEntryTime    |-> 0,
      currentFocusElement |-> <<>>,
      focusStartTime      |-> 0,
      tickDue             |-> 0,
      pending             |-> FALSE,
      profileAt           |-> 0 ]

\* The first render: every Date.now() of the initial values is the time of
\* the mount, nothing is read from the store, the recompute effect is still
\* to run and the one-second interval is started.
IntentFirstRender ==
    [ IntentUnmounted EXCEPT
        !.mounted = TRUE,
        !.signals = DefaultSignals,
        !.lastScrollTime = now,
        !.surfaceEntryTime = now,
        !.focusStartTime = now,
        !.tickDue = now + 1000,
        !.pending = TRUE,
        !.profileAt = now ]

IntentMount(i) ==
    /\ ~intent[i].mounted
    /\ intent' = [intent EXCEPT ![i] = IntentFirstRender]
    /\ lastOp' = [op |-> "mountIntent", on |-> i]
    /\ UNCHANGED <<now, store, behavior, memory, glow, timers, nextTimer>>

\* The effect on [signals]: recompute the profile.
IntentEffectsResult(s) ==
    [s EXCEPT !.profile = calculateIntent(s.signals, now),
              !.profileAt = now,
              !.pending = FALSE]

IntentEffects(i) ==
    /\ intent[i].mounted
    /\ intent[i].pending
    /\ intent' = [intent EXCEPT ![i] = IntentEffectsResult(intent[i])]
    /\ UNCHANGED <<now, store, behavior, memory, glow, timers, nextTimer, lastOp>>

IntentReady(i) ==
    /\ intent[i].mounted
    /\ \A j \in Instances : ~intent[j].pending

\* The callback of setInterval(..., 1000).
IntentTick(i) ==
    /\ IntentReady(i)
    /\ now >= intent[i].tickDue
    /\ intent' = [intent EXCEPT ![i] =
         [@ EXCEPT
            !.signals = [@ EXCEPT !.timeOnSurface = now - intent[i].surfaceEntryTime],
            !.tickDue = now + 1000,
            !.pending = TRUE]]
    /\ lastOp' = [op |-> "tickIntent", on |-> i]
    /\ UNCHANGED <<now, store, behavior, memory, glow, timers, nextTimer>>

\* scrollPatterns after one more pattern.
AppendPattern(scrollPatterns, pattern) ==
    SliceLast(scrollPatterns, ScrollPatternsKeep) \o <<pattern>>

scrollDirection(positionDelta) ==
    IF positionDelta > 5 THEN "down"
    ELSE IF positionDelta < -5 THEN "up"
    ELSE "none"

\* onScroll that remembers the direction of every scroll, none included.
onScrollForgetsDirection(s, scrollY, containerHeight, timer) ==
    LET timeDelta == now - s.lastScrollTime
        positionDelta == scrollY - s.lastScrollPosition
        velocity ==
            IF timeDelta > 0
            THEN JMul(JDiv(Num(Abs(positionDelta)), Num(timeDelta)), Num(1000))
            ELSE Num(0)
        direction == scrollDirection(positionDelta)
        isDirectionChange ==
            direction # "none" /\ s.lastDirection # "none" /\ direction # s.lastDirection
        newPattern ==
            [ timestamp |-> now,
              position  |-> JDiv(Num(scrollY), Num(containerHeight)),
              velocity  |-> velocity,
              direction |-> direction ]
        patterns == AppendPattern(s.signals.scrollPatterns, newPattern)
    IN  [s EXCEPT
           !.pauseTimer = <<timer>>,
           !.signals = [@ EXCEPT
              !.scrollPatterns = patterns,
              !.directionChanges = IF isDirectionChange THEN @ + 1 ELSE @,
              !.averageVelocity = JDiv(SumVelocity(patterns), Num(Len(patterns))),
              !.lastActivity = now],
           !.lastScrollPosition = scrollY,
           !.lastScrollTime = now,
           !.lastDirection = direction,
           !.pending = TRUE]

onScrollResult(s, scrollY, containerHeight, timer) ==
    LET timeDelta == now - s.lastScrollTime
        positionDelta == scrollY - s.lastScrollPosition
        velocity ==
            IF timeDelta > 0
            THEN JMul(JDiv(Num(Abs(positionDelta)), Num(timeDelta)), Num(1000))
            ELSE Num(0)
        direction == scrollDirection(positionDelta)
        isDirectionChange ==
            direction # "none" /\ s.lastDirection # "none" /\ direction # s.lastDirection
        newPattern ==
            [ timestamp |-> now,
              position  |-> JDiv(Num(scrollY), Num(containerHeight)),
              velocity  |-> velocity,
              direction |-> direction ]
        patterns == AppendPattern(s.signals.scrollPatterns, newPattern)
    IN  [s EXCEPT
           !.pauseTimer = <<timer>>,
           !.signals = [@ EXCEPT
              !.scrollPatterns = patterns,
              !.directionChanges = IF isDirectionChange THEN @ + 1 ELSE @,
              !.averageVelocity = JDiv(SumVelocity(patterns), Num(Len(patterns))),
              !.lastActivity = now],
           !.lastScrollPosition = scrollY,
           !.lastScrollTime = now,
           !.lastDirection = IF direction # "none" THEN direction ELSE @,
           !.pending = TRUE]

\* onScroll that arms a pause timer without clearing the pending one.
onScrollKeepsTimer(i, scrollY, containerHeight) ==
    /\ IntentReady(i)
    /\ timers' = SetTimeout(timers, nextTimer, "pause", i, 800)
    /\ nextTimer' = nextTimer + 1
    /\ intent' = [intent EXCEPT ![i] =
                    onScrollResult(intent[i], scrollY, containerHeight, nextTimer)]
    /\ lastOp' = [op |-> "onScroll", on |-> i]
    /\ UNCHANGED <<now, store, behavior, memory, glow>>

onScroll(i, scrollY, containerHeight) ==
    /\ IntentReady(i)
    /\ timers' = SetTimeout(ClearTimeout(timers, intent[i].pauseTimer),
                            nextTimer, "pause", i, 800)
    /\ nextTimer' = nextTimer + 1
    /\ intent' = [intent EXCEPT ![i] =
                    onScrollResult(intent[i], scrollY, containerHeight, nextTimer)]
    /\ lastOp' = [op |-> "onScroll", on |-> i]
    /\ UNCHANGED <<now, store, behavior, memory, glow>>

\* The callback of the pause timer.
pauseDetected(s) ==
    [s EXCEPT
       !.signals = [@ EXCEPT !.pauseCount = @ + 1, !.lastActivity = now],
       !.pending = TRUE]

\* focusEvents after one more event.
AppendFocusEvent(focusEvents, event) ==
    SliceLast(focusEvents, FocusEventsKeep) \o <<event>>

\* elementId is <<>> for null.
onFocusChangeResult(s, elementId) ==
    LET newEvent == [ timestamp |-> now,
                      element   |-> s.currentFocusElement[1],
                      duration  |-> now - s.focusStartTime ]
        recorded ==
            IF s.currentFocusElement # <<>>
            THEN [s EXCEPT
                    !.signals = [@ EXCEPT
                       !.focusEvents = AppendFocusEvent(@, newEvent),
                       !.lastActivity = now],
                    !.pending = TRUE]
            ELSE s
    IN  [recorded EXCEPT !.currentFocusElement = elementId, !.focusStartTime = now]

onFocusChange(i, elementId) ==
    /\ IntentReady(i)
    /\ intent' = [intent EXCEPT ![i] = onFocusChangeResult(intent[i], elementId)]
    /\ lastOp' = [op |-> "onFocusChange", on |-> i]
    /\ UNCHANGED <<now, store, behavior, memory, glow, timers, nextTimer>>

\* containerRect, the bounding box IntentSurface passes.
ContainerRect ==
    [width |-> 400, height |-> 300]

onMouseMoveIntentResult(s, x, y) ==
    LET edgeThreshold == 50
        nearEdge == \/ x < edgeThreshold
                    \/ x > ContainerRect.width - edgeThreshold
                    \/ y < edgeThreshold
                    \/ y > ContainerRect.height - edgeThreshold
    IN  IF nearEdge
        THEN [s EXCEPT !.signals = [@ EXCEPT !.lastActivity = now], !.pending = TRUE]
        ELSE s

onMouseMoveIntent(i, x, y) ==
    /\ IntentReady(i)
    /\ intent' = [intent EXCEPT ![i] = onMouseMoveIntentResult(intent[i], x, y)]
    /\ lastOp' = [op |-> "onMouseMoveIntent", on |-> i]
    /\ UNCHANGED <<now, store, behavior, memory, glow, timers, nextTimer>>

\* resetSignals: the signals and the surface entry time are reset; the scroll
\* refs and the pause timer are not touched.
resetSignalsResult(s) ==
    [s EXCEPT !.surfaceEntryTime = now, !.signals = DefaultSignals, !.pending = TRUE]

resetSignals(i) ==
    /\ IntentReady(i)
    /\ intent' = [intent EXCEPT ![i] = resetSignalsResult(intent[i])]
    /\ lastOp' = [op |-> "resetSignals", on |-> i]
    /\ UNCHANGED <<now, store, behavior, memory, glow, timers, nextTimer>>

-----------------------------------------------------------------------------
(* useCursorGlow.  The interval that fades the trail is left out: the      *)
(* trail holds the points as handleMouseMove wrote them.                   *)

\* trailLength, the default of the config.
TrailLength ==
    8

GlowInitial ==
    [ position     |-> <<0, 0>>,
      trail        |-> <<>>,
      velocity     |-> <<Num(0), Num(0)>>,
      isMoving     |-> FALSE,
      lastPosition |-> <<0, 0>>,
      lastTime     |-> now,
      moveTimeout  |-> <<>> ]

handleMouseMoveResult(g, x, y, timer) ==
    LET dt == now - g.lastTime
        vx == JDiv(Num(x - g.lastPosition[1]), Num(dt))
        vy == JDiv(Num(y - g.lastPosition[2]), Num(dt))
        point == [x |-> x, y |-> y, intensity |-> Num(1), timestamp |-> now]
    IN  [g EXCEPT
           !.velocity = IF dt > 0 THEN <<JMul(vx, Num(100)), JMul(vy, Num(100))>> ELSE @,
           !.lastPosition = <<x, y>>,
           !.lastTime = now,
           !.position = <<x, y>>,
           !.isMoving = TRUE,
           !.trail = SliceLast(@ \o <<point>>, TrailLength),
           !.moveTimeout = <<timer>>]

handleMouseMove(x, y) ==
    /\ glow' = handleMouseMoveResult(glow, x, y, nextTimer)
    /\ timers' = SetTimeout(ClearTimeout(timers, glow.moveTimeout),
                            nextTimer, "move", "glow", 100)
    /\ nextTimer' = nextTimer + 1
    /\ lastOp' = [op |-> "handleMouseMove", on |-> "glow"]
    /\ UNCHANGED <<now, store, behavior, memory, intent>>

-----------------------------------------------------------------------------
(* The environment: the clock, the timer queue, the page.                  *)

NoPendingEffects ==
    \A i \in Instances :
        ~behavior[i].pending /\ ~memory[i].pending /\ ~intent[i].pending

\* d milliseconds pass.  The effects of a render run in the millisecond of
\* the render.
Tick(d) ==
    /\ NoPendingEffects
    /\ now' = now + d
    /\ lastOp' = [op |-> "tick", on |-> "clock"]
    /\ UNCHANGED <<store, behavior, memory, intent, glow, timers, nextTimer>>

\* A pending timer whose delay has passed fires: it leaves the queue and its
\* callback runs.
TimerFires(t) ==
    /\ t \in timers
    /\ now >= t.due
    /\ NoPendingEffects
    /\ timers' = timers \ {t}
    /\ intent' = IF t.kind = "pause" /\ intent[t.owner].mounted
                 THEN [intent EXCEPT ![t.owner] = pauseDetected(@)]
                 ELSE intent
    /\ glow' = IF t.kind = "move" THEN [glow EXCEPT !.isMoving = FALSE] ELSE glow
    /\ lastOp' = [op |-> "timer", on |-> t.kind]
    /\ UNCHANGED <<now, store, behavior, memory, nextTimer>>

\* The page is loaded again: every instance is gone, with its timers; the
\* store stays; the components render anew (the debug panel is hidden).
Reload ==
    /\ NoPendingEffects
    /\ behavior' = [i \in Instances |->
                      IF behavior[i].mounted /\ i = "component"
                      THEN BehaviorFirstRender(i) ELSE BehaviorUnmounted]
    /\ memory' = [i \in Instances |->
                    IF memory[i].mounted /\ i = "component"
                    THEN MemoryFirstRender(i) ELSE MemoryUnmounted]
    /\ intent' = [i \in Instances |->
                    IF intent[i].mounted /\ i = "component"
                    THEN IntentFirstRender ELSE IntentUnmounted]
    /\ glow' = GlowInitial
    /\ timers' = {}
    /\ nextTimer' = 1
    /\ lastOp' = [op |-> "reload", on |-> "page"]
    /\ UNCHANGED <<now, store>>

\* Home hides the debug panel: the debug view's instance is unmounted.
BehaviorUnmount(i) ==
    /\ behavior[i].mounted
    /\ NoPendingEffects
    /\ behavior' = [behavior EXCEPT ![i] = BehaviorUnmounted]
    /\ lastOp' = [op |-> "unmount", on |-> i]
    /\ UNCHANGED <<now, store, memory, intent, glow, timers, nextTimer>>

-----------------------------------------------------------------------------
(* Specifications.  One classifier is on the page at a time: the initial   *)
(* state picks it.  Each handler is called through the component that owns *)
(* the hook, at any time and in any order, within the bounds below.        *)

\* Date.now() when the page loads.
StartTime ==
    100000

\* How long a run of the behaviour classifier lasts, in milliseconds.
MaxElapsed ==
    600

\* How many interactions (hovers, clicks, retreats, recorded moves) the
\* behaviour metrics count before the next reset.
MaxInteractions ==
    3

EmptyPage ==
    /\ now = StartTime
    /\ store = [k \in Keys |-> <<>>]
    /\ timers = {}
    /\ nextTimer = 1
    /\ glow = GlowInitial
    /\ lastOp = [op |-> "load", on |-> "page"]

InitBehavior ==
    /\ EmptyPage
    /\ behavior = [i \in Instances |->
                     IF i = "component" THEN BehaviorFirstRender(i)
                     ELSE BehaviorUnmounted]
    /\ memory = [i \in Instances |-> MemoryUnmounted]
    /\ intent = [i \in Instances |-> IntentUnmounted]

InitMemory ==
    /\ EmptyPage
    /\ behavior = [i \in Instances |-> BehaviorUnmounted]
    /\ memory = [i \in Instances |->
                   IF i = "component" THEN MemoryFirstRender(i) ELSE MemoryUnmounted]
    /\ intent = [i \in Instances |-> IntentUnmounted]

InitIntent ==
    /\ EmptyPage
    /\ behavior = [i \in Instances |-> BehaviorUnmounted]
    /\ memory = [i \in Instances |-> MemoryUnmounted]
    /\ intent = [i \in Instances |->
                   IF i = "component" THEN IntentFirstRender ELSE IntentUnmounted]

Elapse(steps, limit) ==
    \E d \in steps : now + d <= StartTime + limit /\ Tick(d)

\* The interactions the metrics count.
Interactions(metrics) ==
    metrics.hoverCount + metrics.clickCount + metrics.approachRetreatCount
    + metrics.directApproaches + Len(metrics.hoverVelocity)

BehaviorBudget(i) ==
    Interactions(behavior[i].metrics) < MaxInteractions

\* CognitiveButton reports pointer moves while the pointer is over the button.
NextBehaviorHandlers ==
    \/ behavior["component"].mounted /\ Elapse({300}, MaxElapsed)
    \/ BehaviorBudget("component") /\ onHoverStart("component", 0, 0)
    \/ onHoverEnd("component")
    \/ \E x \in {0, 40} :
         /\ BehaviorBudget("component")
         /\ behavior["component"].isHovering
         /\ onMouseMove("component", x, 0)
    \/ BehaviorBudget("component") /\ onClick("component")
    \/ BehaviorBudget("component") /\ onApproachRetreat("component")
    \/ BehaviorEffects("component")
    \/ behavior["component"].mounted /\ Reload

NextBehavior ==
    \/ NextBehaviorHandlers
    \/ resetProfile("component")

\* How long a run of the memory classifier lasts, in milliseconds.
MaxElapsedMemory ==
    2600

\* How many visits, focus points and timers the memory classifier counts
\* before the next reset or reload.
MaxVisits ==
    1

MaxFocusPoints ==
    1

MaxTimers ==
    5

NextMemoryHandlers ==
    \/ memory["component"].mounted /\ Elapse({MaxElapsedMemory}, MaxElapsedMemory)
    \/ /\ memory["component"].memory.visitCount < MaxVisits
       /\ nextTimer < MaxTimers
       /\ onEnter("component")
    \/ onLeave("component")
    \/ \E x \in {0, 60} :
         /\ Len(memory["component"].currentSession.focusPoints) < MaxFocusPoints
         /\ onMouseMoveMemory("component", x, 0)
    \/ /\ memory["component"].currentSession.isActive
       /\ onScrollMemory("component", Fin(6, 10))
    \/ MemoryEffects("component")
    \/ MemoryRender("component")
    \/ \E t \in timers : memory["component"].mounted /\ TimerFires(t)
    \/ memory["component"].mounted /\ Reload

NextMemory ==
    \/ NextMemoryHandlers
    \/ resetMemory("component")

\* How long a run of the intent classifier lasts, in milliseconds.
MaxElapsedIntent ==
    6000

\* How many scrolls and focus changes the intent signals record before the
\* next reset.
MaxSignals ==
    1

NextIntent ==
    \/ intent["component"].mounted /\ Elapse({MaxElapsedIntent \div 2}, MaxElapsedIntent)
    \/ \E scrollY \in {0, 2000} :
         /\ Len(intent["component"].signals.scrollPatterns)
            + Len(intent["component"].signals.focusEvents) < MaxSignals
         /\ nextTimer < MaxTimers
         /\ onScroll("component", scrollY, ContainerRect.height)
    \/ \E elementId \in {<<>>, <<"item-1">>} :
         /\ Len(intent["component"].signals.scrollPatterns)
            + Len(intent["component"].signals.focusEvents) < MaxSignals
         /\ intent["component"].currentFocusElement # elementId
         /\ onFocusChange("component", elementId)
    \/ \E x \in {10, 200} :
         /\ x < 50 => intent["component"].signals.lastActivity # now
         /\ onMouseMoveIntent("component", x, 150)
    \/ resetSignals("component")
    \/ IntentEffects("component")
    \/ IntentTick("component")
    \/ \E t \in timers : intent["component"].mounted /\ TimerFires(t)
    \/ intent["component"].mounted /\ Reload

\* How long a run of the cursor glow lasts, in milliseconds.
MaxElapsedGlow ==
    200

\* The page with the cursor glow alone.
GlowAlone ==
    \A i \in Instances :
        ~behavior[i].mounted /\ ~memory[i].mounted /\ ~intent[i].mounted

InitGlow ==
    /\ EmptyPage
    /\ behavior = [i \in Instances |-> BehaviorUnmounted]
    /\ memory = [i \in Instances |-> MemoryUnmounted]
    /\ intent = [i \in Instances |-> IntentUnmounted]

NextGlow ==
    \/ GlowAlone /\ Elapse({100}, MaxElapsedGlow)
    \/ \E x \in {0, 50} :
         GlowAlone /\ nextTimer < MaxTimers /\ handleMouseMove(x, 0)
    \/ \E t \in timers : GlowAlone /\ TimerFires(t)
    \/ GlowAlone /\ Reload

Init ==
    InitBehavior \/ InitMemory \/ InitIntent \/ InitGlow

Next ==
    NextBehavior \/ NextMemory \/ NextIntent \/ NextGlow

Spec ==
    Init /\ [][Next]_vars

SpecBehavior ==
    InitBehavior /\ [][NextBehavior]_vars

SpecMemory ==
    InitMemory /\ [][NextMemory]_vars

SpecIntent ==
    InitIntent /\ [][NextIntent]_vars

\* Home with the debug panel of the button: CognitiveButton and
\* CognitiveButtonDebug call useBehaviorProfile with the same id.
NextPage ==
    \/ BehaviorBudget("component") /\ onHoverStart("component", 0, 0)
    \/ onHoverEnd("component")
    \/ BehaviorBudget("component") /\ onClick("component")
    \/ BehaviorEffects("component")
    \/ NoPendingEffects /\ BehaviorMount("debug")
    \/ BehaviorUnmount("debug")
    \/ resetProfile("debug")
    \/ BehaviorEffects("debug")

SpecPage ==
    InitBehavior /\ [][NextPage]_vars

\* The handlers of the two classifiers that persist, without their resets.
SpecHandlers ==
    (InitBehavior \/ InitMemory) /\ [][NextBehaviorHandlers \/ NextMemoryHandlers]_vars

-----------------------------------------------------------------------------
(* One long hover session over the button: the pointer stays where it is,  *)
(* each move reports a velocity of 0.                                      *)

\* How many pointer moves one run reports.
MaxMoves ==
    22

NextHoverMoves ==
    \/ /\ behavior["component"].metrics.hoverCount < 1
       /\ onHoverStart("component", 0, 0)
    \/ onHoverEnd("component")
    \/ /\ behavior["component"].isHovering
       /\ Len(behavior["component"].metrics.hoverVelocity) < MaxMoves
       /\ onMouseMove("component", 0, 0)
    \/ /\ behavior["component"].metrics.clickCount < 1
       /\ onClick("component")
    \/ resetProfile("component")
    \/ BehaviorEffects("component")

SpecHoverMoves ==
    InitBehavior /\ [][NextHoverMoves]_vars

\* C1: after any sequence of onHoverStart / onMouseMove / onHoverEnd /
\* onClick / reset calls the hoverVelocity history holds at most 20 entries.
C1_HoverVelocityAtMost20 ==
    \A i \in Instances : Len(behavior[i].metrics.hoverVelocity) <= 20

-----------------------------------------------------------------------------
(* Many short visits of the card, one after the other.                     *)

\* How many visits one run makes.
MaxSessions ==
    52

NextVisits ==
    \/ /\ memory["component"].memory.visitCount < MaxSessions
       /\ ~memory["component"].currentSession.isActive
       /\ onEnter("component")
    \/ onLeave("component")
    \/ MemoryEffects("component")

SpecVisits ==
    InitMemory /\ [][NextVisits]_vars

\* The layers the store holds under the key of instance i.
StoredLayers(i) ==
    IF store[MemoryKey(i)] = <<>> THEN <<>>
    ELSE JSONparse(store[MemoryKey(i)][1]).layers

\* C2: after any number of completed onEnter/onLeave sessions the persisted
\* layers history holds at most 50 MemoryLayer records.
C2_LayersAtMost50 ==
    \A i \in Instances :
        Len(memory[i].memory.layers) <= 50 /\ Len(StoredLayers(i)) <= 50

\* A score is a number in [0,1].
InUnitInterval(x) ==
    x.k = "fin" /\ 0 <= x.n /\ x.n <= x.d

\* C3: after any sequence of handler calls and resets, each of the exposed
\* scores confidence, engagement and familiarity is a number in [0,1].
C3_ScoresInUnitInterval ==
    \A i \in Instances :
        behavior[i].mounted =>
            /\ InUnitInterval(behavior[i].profile.confidence)
            /\ InUnitInterval(behavior[i].profile.engagement)
            /\ InUnitInterval(behavior[i].profile.familiarity)

\* C4: reset returns the accumulator to its defaults and, once the pending
\* effects of that reset have run, the store holds no entry under the key.
C4_ResetClearsEntry ==
    \A i \in Instances :
        /\ (behavior[i].mounted /\ lastOp = [op |-> "resetProfile", on |-> i]) =>
              /\ behavior[i].metrics = getDefaultMetrics
              /\ ~behavior[i].pending => store[BehaviorKey(i)] = <<>>
        /\ (memory[i].mounted /\ lastOp = [op |-> "resetMemory", on |-> i]) =>
              /\ memory[i].memory = getDefaultMemory
              /\ ~memory[i].pending => store[MemoryKey(i)] = <<>>

\* The profile a freshly created instance exposes before any event, on an
\* empty store.
FreshBehaviorProfile ==
    BehaviorEffectsResult([BehaviorUnmounted EXCEPT !.mounted = TRUE]).profile

C6_RoundTrip ==
    [][lastOp'.op = "reload" =>
         \A i \in Instances :
             /\ (behavior[i].mounted /\ behavior'[i].mounted) =>
                   /\ behavior'[i].metrics = behavior[i].metrics
                   /\ ~behavior'[i].isHovering
                   /\ behavior'[i].hoverStartTime = 0
                   /\ behavior'[i].lastMousePosition = <<>>
             /\ (memory[i].mounted /\ memory'[i].mounted) =>
                   /\ memory'[i].memory = memory[i].memory
                   /\ memory'[i].currentSession = InitialSession]_vars

\* A reload of the button after a completed hover with a recorded move.
C6_ReloadAfterHover ==
    /\ lastOp.op = "reload"
    /\ behavior["component"].mounted
    /\ behavior["component"].metrics.hoverVelocity # <<>>
    /\ behavior["component"].metrics.totalHoverDuration > 0

\* The accumulator a first render takes from the entry under a key.
Loaded(entry, default) ==
    IF entry = <<>> THEN default ELSE JSONparse(entry[1])

\* C7 (as stated): every classifier, intent detection included, reads its
\* accumulator from the store on first use and writes it after every
\* mutation, so the accumulator of every classifier survives a page reload.
C7_EveryAccumulatorSurvivesReload ==
    [][lastOp'.op = "reload" =>
         \A i \in Instances :
             /\ (behavior[i].mounted /\ behavior'[i].mounted) =>
                   behavior'[i].metrics = Loaded(store[BehaviorKey(i)], getDefaultMetrics)
             /\ (memory[i].mounted /\ memory'[i].mounted) =>
                   memory'[i].memory = Loaded(store[MemoryKey(i)], getDefaultMemory)
             /\ (intent[i].mounted /\ intent'[i].mounted) =>
                   intent'[i].signals = intent[i].signals]_vars

\* C7 (amended): the behavior profile and the interaction memory read their
\* accumulator from the store on first use and write it after every mutation,
\* so it survives a page reload; intent detection keeps its signals in memory
\* only and a reload starts it from the defaults.
C7_PersistedAccumulatorsSurviveReload ==
    [][/\ NoPendingEffects' =>
            \A i \in Instances :
                /\ behavior'[i].mounted =>
                      store'[BehaviorKey(i)] = <<StringifyMetrics(behavior'[i].metrics)>>
                /\ memory'[i].mounted =>
                      store'[MemoryKey(i)] = <<StringifyMemory(memory'[i].memory)>>
       /\ lastOp'.op = "reload" =>
            \A i \in Instances :
                /\ (behavior[i].mounted /\ behavior'[i].mounted) =>
                      behavior'[i].metrics = Loaded(store[BehaviorKey(i)], getDefaultMetrics)
                /\ (memory[i].mounted /\ memory'[i].mounted) =>
                      memory'[i].memory = Loaded(store[MemoryKey(i)], getDefaultMemory)
                /\ (intent[i].mounted /\ intent'[i].mounted) =>
                      intent'[i].signals = DefaultSignals]_vars

\* A reload of the card after a visit.
C7_ReloadAfterVisit ==
    /\ lastOp.op = "reload"
    /\ memory["component"].mounted
    /\ memory["component"].memory.visitCount > 0

\* C8: writes to the store for one id are never contended: the entry an
\* instance overwrites is the entry that instance last read, wrote or
\* removed, never state written by another instance.
C8_WritesNeverContended ==
    [][\A i \in Instances :
         (behavior[i].mounted /\ behavior[i].pending /\ ~behavior'[i].pending) =>
             store[BehaviorKey(i)] = behavior[i].synced]_vars

\* C9: at most one timer of each kind of each owner is pending.
C9_OneTimerPerKind ==
    \A t1, t2 \in timers :
        (t1.kind = t2.kind /\ t1.owner = t2.owner) => t1 = t2

\* C10 (as stated): an evaluation of the profile calculator on the
\* accumulator an instance holds returns the profile the instance computed
\* from that accumulator, whatever the time of the two evaluations.
C10_ProfileIndependentOfClock ==
    \A i \in Instances :
        /\ (behavior[i].mounted /\ ~behavior[i].pending) =>
              calculateProfile(behavior[i].metrics) = behavior[i].profile
        /\ (intent[i].mounted /\ ~intent[i].pending) =>
              calculateIntent(intent[i].signals, now) = intent[i].profile

\* The idle test of calculateIntent at time `at`.
Idle(signals, at) ==
    at - signals.lastActivity > 5000

\* C10 (amended): calculateProfile is a function of the metrics alone;
\* calculateIntent also reads the clock: two evaluations on identical signals
\* return the identical profile when both run on the same side of the idle
\* threshold (Date.now() - lastActivity > 5000 at both or at neither).
C10_ProfileSameWithinIdleThreshold ==
    \A i \in Instances :
        /\ (behavior[i].mounted /\ ~behavior[i].pending) =>
              calculateProfile(behavior[i].metrics) = behavior[i].profile
        /\ (intent[i].mounted /\ ~intent[i].pending
            /\ (Idle(intent[i].signals, now)
                <=> Idle(intent[i].signals, intent[i].profileAt))) =>
              calculateIntent(intent[i].signals, now) = intent[i].profile

\* The signals of a surface after a scroll, read again some time after the
\* profile was computed from them.
C10_EvaluatedLater ==
    /\ intent["component"].mounted
    /\ ~intent["component"].pending
    /\ intent["component"].signals.scrollPatterns # <<>>
    /\ now > intent["component"].profileAt
    /\ ~Idle(intent["component"].signals, now)

-----------------------------------------------------------------------------
(* A page that finds the store as an earlier page, or another script of    *)
(* the origin, left it: each key has no entry or holds a text that is not  *)
(* JSON.  The button and the card are then created.                        *)

InitStored ==
    /\ now = StartTime
    /\ store \in [Keys -> {<<>>, <<MalformedText>>}]
    /\ timers = {}
    /\ nextTimer = 1
    /\ glow = GlowInitial
    /\ lastOp = [op |-> "load", on |-> "page"]
    /\ behavior = [i \in Instances |-> BehaviorUnmounted]
    /\ memory = [i \in Instances |-> MemoryUnmounted]
    /\ intent = [i \in Instances |-> IntentUnmounted]

NextStored ==
    \/ ~behavior["component"].failed /\ BehaviorMount("component")
    \/ ~memory["component"].failed /\ MemoryMount("component")
    \/ BehaviorEffects("component")
    \/ MemoryEffects("component")
    \/ BehaviorBudget("component") /\ onHoverStart("component", 0, 0)
    \/ onHoverEnd("component")
    \/ BehaviorBudget("component") /\ onClick("component")

SpecStored ==
    InitStored /\ [][NextStored]_vars

\* C11: when the value stored under a classifier's key is absent or
\* malformed, creating the classifier yields the default accumulator and no
\* failure reaches the caller.
C11_MalformedFallsBackToDefaults ==
    \A i \in Instances :
        /\ ~behavior[i].failed
        /\ ~memory[i].failed
        /\ (lastOp = [op |-> "mount", on |-> i] /\ behavior[i].pending) =>
              behavior[i].mounted /\ behavior[i].metrics = getDefaultMetrics
        /\ (lastOp = [op |-> "mountMemory", on |-> i] /\ memory[i].pending) =>
              memory[i].mounted /\ memory[i].memory = getDefaultMemory

\* C12: wherever a consumer can read the Behavior Profile classifier, on
\* first use before any event included, the exposed profile is
\* calculateProfile of the exposed metrics.
C12_ProfileIsViewOfMetrics ==
    \A i \in Instances :
        behavior[i].mounted =>
            behavior[i].profile = calculateProfile(behavior[i].metrics)

\* The operations that reset an accumulator.
Resets ==
    {"resetProfile", "resetMemory", "resetSignals"}

\* C13: between two resets none of the counters hoverCount, clickCount,
\* visitCount, pauseCount and directionChanges decreases, whatever the
\* event (for the two classifiers that persist, a page reload included).
C13_CountersNeverDecrease ==
    [][lastOp'.op \notin Resets =>
         \A i \in Instances :
             /\ (behavior[i].mounted /\ behavior'[i].mounted) =>
                   /\ behavior'[i].metrics.hoverCount >= behavior[i].metrics.hoverCount
                   /\ behavior'[i].metrics.clickCount >= behavior[i].metrics.clickCount
             /\ (memory[i].mounted /\ memory'[i].mounted) =>
                   memory'[i].memory.visitCount >= memory[i].memory.visitCount
             /\ (intent[i].mounted /\ intent'[i].mounted /\ lastOp'.op # "reload") =>
                   /\ intent'[i].signals.pauseCount >= intent[i].signals.pauseCount
                   /\ intent'[i].signals.directionChanges
                        >= intent[i].signals.directionChanges]_vars

\* A completed hover and a click have been counted.
C13_HoverAndClickCounted ==
    /\ behavior["component"].mounted
    /\ ~behavior["component"].isHovering
    /\ behavior["component"].metrics.hoverCount > 0
    /\ behavior["component"].metrics.clickCount > 0
    /\ behavior["component"].metrics.hoverWithoutClick > 0

-----------------------------------------------------------------------------
(* The button, with clicks a tenth of a second after the hover starts.     *)

\* How long a run of clicks lasts, in milliseconds.
MaxElapsedClick ==
    200

NextClick ==
    \/ Elapse({100}, MaxElapsedClick)
    \/ BehaviorBudget("component") /\ onHoverStart("component", 0, 0)
    \/ onHoverEnd("component")
    \/ BehaviorBudget("component") /\ onClick("component")
    \/ resetProfile("component")
    \/ BehaviorEffects("component")

SpecClick ==
    InitBehavior /\ [][NextClick]_vars

\* A fresh accumulator whose hover started 100 ms ago.
HoverStarted100msAgo(b) ==
    /\ b.mounted
    /\ ~b.pending
    /\ b.isHovering
    /\ now = b.hoverStartTime + 100
    /\ b.metrics = [getDefaultMetrics EXCEPT
                      !.hoverCount = 1,
                      !.lastInteractionTime = b.hoverStartTime]

\* C14: on a fresh Behavior accumulator, onHoverStart and then onClick
\* 100 ms later give clickCount = 1 and the personality calm.
C14_ClickAfterHoverStaysCalm ==
    [][\A i \in Instances :
         (HoverStarted100msAgo(behavior[i]) /\ lastOp' = [op |-> "onClick", on |-> i]) =>
             /\ behavior'[i].metrics.clickCount = 1
             /\ behavior'[i].metrics.clickSpeed = <<100>>
             /\ BehaviorEffectsResult(behavior'[i]).profile.personality = "calm"]_vars

\* The click of the scenario has happened and its effects have run.
C14_ClickedAfter100ms ==
    /\ lastOp = [op |-> "onClick", on |-> "component"]
    /\ ~behavior["component"].pending
    /\ behavior["component"].metrics.hoverCount = 1
    /\ behavior["component"].metrics.clickSpeed = <<100>>
    /\ behavior["component"].metrics.clickCount = 1

-----------------------------------------------------------------------------
(* The card, with one session of two and a half seconds.                   *)

\* How long the session lasts, in milliseconds.
SessionLength ==
    2500

NextSession ==
    \/ Elapse({SessionLength}, SessionLength)
    \/ /\ memory["component"].memory.visitCount < MaxVisits
       /\ nextTimer < MaxTimers
       /\ onEnter("component")
    \/ onLeave("component")
    \/ \E x \in {0, 20} :
         /\ Len(memory["component"].currentSession.focusPoints) < MaxFocusPoints + 1
         /\ onMouseMoveMemory("component", x, 0)
    \/ /\ memory["component"].currentSession.isActive
       /\ onScrollMemory("component", Fin(6, 10))
    \/ MemoryEffects("component")
    \/ MemoryRender("component")
    \/ \E t \in timers : TimerFires(t)
    \/ resetMemory("component")

SpecSession ==
    InitMemory /\ [][NextSession]_vars

\* The first session of a fresh accumulator is open for 2500 ms, scrolled
\* to 0.6, with the pointer moving 30 px per sample or less.
StudySessionOpen(m) ==
    /\ m.mounted
    /\ m.memory = getDefaultMemory
    /\ m.currentSession.isActive
    /\ now - m.currentSession.startTime = SessionLength
    /\ m.currentSession.scrollDepth = Fin(6, 10)
    /\ ~JGt(calculateAverageMovement(m.currentSession.focusPoints), Num(30))

\* What onLeave records for the session: one layer of the given type and
\* signature, and revealProgress 0.15 higher.
StudyLayerRecorded(m, after, signature) ==
    /\ after.memory.visitCount = 1
    /\ Len(after.memory.layers) = 1
    /\ after.memory.layers[1].interactionType = "study"
    /\ after.memory.layers[1].emotionalSignature = signature
    /\ after.memory.revealProgress = JAdd(m.memory.revealProgress, Fin(15, 100))

\* C15: on a fresh Memory accumulator, one session of 2500 ms with scroll
\* depth 0.6 and low pointer movement is recorded as a layer of type study
\* with the signature thorough, and revealProgress grows by 0.15.
C15_StudySessionIsThorough ==
    [][\A i \in Instances :
         (StudySessionOpen(memory[i]) /\ lastOp' = [op |-> "onLeave", on |-> i]) =>
             StudyLayerRecorded(memory[i], memory'[i], "thorough")]_vars

\* C15, amended: the session is recorded as a layer of type study with the
\* signature curious (thorough needs more than 3000 ms), and
\* revealProgress grows by 0.15.
C15_StudySessionIsCurious ==
    [][\A i \in Instances :
         (StudySessionOpen(memory[i]) /\ lastOp' = [op |-> "onLeave", on |-> i]) =>
             StudyLayerRecorded(memory[i], memory'[i], "curious")]_vars

\* The session of the scenario has been recorded.
C15_StudySessionRecorded ==
    /\ lastOp = [op |-> "onLeave", on |-> "component"]
    /\ memory["component"].memory.visitCount = 1
    /\ memory["component"].memory.layers[1].duration = SessionLength
    /\ memory["component"].memory.layers[1].scrollDepth = Fin(6, 10)
    /\ Len(memory["component"].memory.layers[1].focusPoints) = 2
    /\ memory["component"].memory.revealProgress = Fin(15, 100)

-----------------------------------------------------------------------------
(* The button on a page whose store holds the metrics of earlier use.      *)

\* Metrics of earlier use of the button: hovers of one length, clicks of one
\* latency, each pointer measure low or high.
StoredMetricsSamples ==
    { [getDefaultMetrics EXCEPT
         !.hoverCount = h,
         !.totalHoverDuration = h * d,
         !.averageHoverDuration = Num(d),
         !.clickCount = c,
         !.clickSpeed = [k \in 1..c |-> latency],
         !.hoverWithoutClick = w,
         !.approachRetreatCount = r,
         !.directApproaches = a,
         !.lastInteractionTime = StartTime \div 2] :
        h \in {4, 40}, d \in {100, 1000}, c \in {0, 3}, latency \in {100, 1800},
        w \in {0, 6}, r \in {0, 2, 4}, a \in {0, 4, 8} }

\* Every hover that ended without a click is a hover that was counted.
StoredMetrics ==
    {metrics \in StoredMetricsSamples : metrics.hoverWithoutClick <= metrics.hoverCount}

\* How long the button is used on this page, in milliseconds.
MaxElapsedProfile ==
    100

InitProfile ==
    /\ now = StartTime
    /\ \E metrics \in StoredMetrics :
         store = [k \in Keys |->
                    IF k = BehaviorKey("component") THEN <<StringifyMetrics(metrics)>>
                    ELSE <<>>]
    /\ timers = {} /\ nextTimer = 1 /\ glow = GlowInitial
    /\ lastOp = [op |-> "load", on |-> "page"]
    /\ behavior = [i \in Instances |-> BehaviorUnmounted]
    /\ memory = [i \in Instances |-> MemoryUnmounted]
    /\ intent = [i \in Instances |-> IntentUnmounted]

NextProfile ==
    \/ BehaviorMount("component")
    \/ BehaviorEffects("component")
    \/ behavior["component"].mounted /\ Elapse({MaxElapsedProfile}, MaxElapsedProfile)
    \/ /\ behavior["component"].hoverStartTime = 0
       /\ onHoverStart("component", 0, 0)
    \/ onHoverEnd("component")
    \/ /\ behavior["component"].metrics.lastInteractionTime < now
       /\ onClick("component")
    \/ /\ behavior["component"].metrics.approachRetreatCount % 2 = 0
       /\ onApproachRetreat("component")

SpecProfile ==
    InitProfile /\ [][NextProfile]_vars

\* The mean of the click latencies, above 1500.
SlowClicks(metrics) ==
    /\ Len(metrics.clickSpeed) > 0
    /\ SumSeq(metrics.clickSpeed) > 1500 * Len(metrics.clickSpeed)

\* The first rule that matches, read on the scores of the profile.
FirstMatchingPersonality(metrics, profile) ==
    IF JGt(profile.familiarity, Fin(7, 10)) /\ JGt(profile.confidence, Fin(6, 10))
    THEN "calm"
    ELSE IF JGt(profile.confidence, Fin(7, 10)) /\ metrics.directApproaches > 3
    THEN "assertive"
    ELSE IF metrics.hoverWithoutClick > 5 \/ metrics.approachRetreatCount > 3
    THEN "inviting"
    ELSE IF JGt(profile.engagement, Fin(6, 10))
            /\ JGt(metrics.averageHoverDuration, Num(800))
    THEN "curious"
    ELSE IF metrics.approachRetreatCount > 1 \/ SlowClicks(metrics)
    THEN "hesitant"
    ELSE "calm"

\* C16: the personality calculateProfile returns is that of the first
\* matching rule of the chain calm, assertive, inviting, curious, hesitant,
\* calm, where confidence, engagement and familiarity are the scores the
\* profile exposes.
C16_PersonalityIsFirstMatchingRule ==
    \A i \in Instances :
        LET profile == calculateProfile(behavior[i].metrics)
        IN  /\ profile.personality = FirstMatchingPersonality(behavior[i].metrics, profile)
            /\ (behavior[i].mounted /\ ~behavior[i].pending) =>
                  behavior[i].profile.personality
                    = FirstMatchingPersonality(behavior[i].metrics, behavior[i].profile)

\* The profile is assertive on metrics that the inviting rule matches too,
\* with a confidence that the profile exposes clamped to 1.
C16_AssertiveBeforeInviting ==
    /\ behavior["component"].mounted
    /\ ~behavior["component"].pending
    /\ behavior["component"].profile.personality = "assertive"
    /\ behavior["component"].profile.confidence = Num(1)
    /\ behavior["component"].metrics.approachRetreatCount > 3
    /\ behavior["component"].metrics.clickCount > 3

-----------------------------------------------------------------------------
(* The surface, either just mounted and scrolled 40 px at a time, or after *)
(* earlier use: eight scrolls, a last pause 6 s ago and nothing since.     *)

\* How many scrolls the surface has recorded in the signals of earlier use.
EarlierScrolls ==
    8

\* The signals of earlier use: scrolls of velocity v, the first `pauses`
\* of them followed by a pause, in one direction or to and fro, and at
\* most one focus event.
EarlierSignals(v, pauses, turning, focusEvents) ==
    LET lastScroll == StartTime - 6800
        timestamp(k) ==
            LET long == IF pauses >= k THEN pauses - k + 1 ELSE 0
            IN  lastScroll - 1000 * long - 100 * ((EarlierScrolls - k) - long)
        scrollY(k) == IF turning THEN 40 * (k % 2) ELSE 40 * k
    IN  [ scrollPatterns   |->
              [k \in 1..EarlierScrolls |->
                 [ timestamp |-> timestamp(k),
                   position  |-> JDiv(Num(scrollY(k)), Num(ContainerRect.height)),
                   velocity  |-> Num(v),
                   direction |-> IF turning /\ k % 2 = 0 THEN "up" ELSE "down" ]],
          focusEvents      |-> focusEvents,
          pauseCount       |-> pauses + 1,
          directionChanges |-> IF turning THEN EarlierScrolls - 1 ELSE 0,
          averageVelocity  |-> Num(v),
          timeOnSurface    |-> 20000,
          lastActivity     |-> StartTime - 6000 ]

\* The instance that holds the signals of earlier use when its one-second
\* interval has just fired.
EarlierUse(signals) ==
    [ IntentUnmounted EXCEPT
        !.mounted = TRUE,
        !.signals = signals,
        !.lastScrollPosition =
            IF signals.directionChanges > 0 THEN 0 ELSE 40 * EarlierScrolls,
        !.lastScrollTime = StartTime - 6800,
        !.lastDirection = signals.scrollPatterns[EarlierScrolls].direction,
        !.pauseTimer = <<0>>,
        !.surfaceEntryTime = StartTime - 20000,
        !.focusStartTime = StartTime - 7000,
        !.tickDue = StartTime + 1000,
        !.pending = TRUE,
        !.profileAt = StartTime - 1000 ]

EarlierUses ==
    { EarlierUse(EarlierSignals(v, pauses, turning, focusEvents)) :
        v \in {20, 80, 200, 400, 600},
        pauses \in {0, 4, 6},
        turning \in BOOLEAN,
        focusEvents \in {<<>>} \cup
            { <<[timestamp |-> StartTime - 7000, element |-> "item-1", duration |-> d]>> :
                d \in {700, 2000} } }

\* How many scrolls a freshly mounted surface records, and within how many
\* milliseconds.
MaxScrolls ==
    5

MaxElapsedScrolls ==
    500

InitRules ==
    /\ EmptyPage
    /\ behavior = [i \in Instances |-> BehaviorUnmounted]
    /\ memory = [i \in Instances |-> MemoryUnmounted]
    /\ \E s \in EarlierUses \cup {IntentFirstRender} :
         intent = [i \in Instances |-> IF i = "component" THEN s ELSE IntentUnmounted]

NextRules ==
    \/ Elapse({100}, MaxElapsedScrolls)
    \/ /\ Len(intent["component"].signals.scrollPatterns) < MaxScrolls
       /\ onScroll("component", intent["component"].lastScrollPosition + 40,
                   ContainerRect.height)
    \/ /\ intent["component"].signals.lastActivity < now
       /\ onMouseMoveIntent("component", 10, 10)
    \/ IntentEffects("component")

SpecRules ==
    InitRules /\ [][NextRules]_vars

\* signals.focusEvents.reduce((a, b) => a + b.duration, 0) / length, or 0.
MeanFocusDuration(signals) ==
    IF Len(signals.focusEvents) > 0
    THEN JDiv(Num(SumSeq([k \in DOMAIN signals.focusEvents |->
                            signals.focusEvents[k].duration])),
              Num(Len(signals.focusEvents)))
    ELSE Num(0)

\* The first rule that matches, in the order searching, reading, comparing,
\* deciding, leaving, browsing.
FirstMatchingIntent(signals, at) ==
    LET velocity == recentVelocityOf(signals)
        pauses == signals.pauseCount
        avgFocus == MeanFocusDuration(signals)
    IN  IF JGt(velocity, Num(300)) /\ pauses < 2 /\ signals.directionChanges < 3
        THEN "searching"
        ELSE IF JLt(velocity, Num(100)) /\ pauses > 3 /\ JGt(avgFocus, Num(1000))
        THEN "reading"
        ELSE IF signals.directionChanges > 5 /\ JGt(velocity, Num(50))
                /\ JLt(velocity, Num(300))
        THEN "comparing"
        ELSE IF pauses > 5 /\ JLt(velocity, Num(50)) /\ JGt(avgFocus, Num(500))
        THEN "deciding"
        ELSE IF at - signals.lastActivity > 5000 \/ JGt(velocity, Num(500))
        THEN "leaving"
        ELSE "browsing"

\* The layout of each intent.
LayoutOf ==
    [ searching |-> "compact", reading |-> "focused", comparing |-> "expanded",
      deciding |-> "focused", leaving |-> "minimal", browsing |-> "expanded" ]

\* Five scrolls of 400 px/s, no pause, no direction change.
FiveFastScrolls(signals) ==
    /\ Len(signals.scrollPatterns) = 5
    /\ \A k \in 1..5 : signals.scrollPatterns[k].velocity = Num(400)
    /\ signals.pauseCount = 0
    /\ signals.directionChanges = 0

\* C17: calculateIntent returns the intent of the first matching rule in
\* the order searching, reading, comparing, deciding, leaving, browsing,
\* with the layout looked up from that intent; five scrolls of 400 px/s
\* with no pause and no direction change give searching with urgency 0.8.
C17_IntentIsFirstMatchingRule ==
    \A i \in Instances :
        LET signals == intent[i].signals
            profile == calculateIntent(signals, now)
        IN  intent[i].mounted =>
              /\ profile.currentIntent = FirstMatchingIntent(signals, now)
              /\ profile.suggestedLayout = LayoutOf[profile.currentIntent]
              /\ (~intent[i].pending /\ intent[i].profileAt = now) =>
                    intent[i].profile = profile
              /\ (FiveFastScrolls(signals) /\ ~intent[i].pending) =>
                    /\ intent[i].profile.currentIntent = "searching"
                    /\ intent[i].profile.urgency = Fin(8, 10)
                    /\ intent[i].profile.suggestedLayout = "compact"

\* The five scrolls of the scenario have been recorded and the profile
\* recomputed.
C17_FiveFastScrollsRecorded ==
    /\ lastOp = [op |-> "onScroll", on |-> "component"]
    /\ ~intent["component"].pending
    /\ FiveFastScrolls(intent["component"].signals)
    /\ intent["component"].profile.confidence = Fin(8, 10)

\* C18: the velocity the intent rules use is the mean of the velocities of
\* the most recent scroll samples, at most 5 of them; with fewer than 5
\* samples it is the mean of the samples that exist.
C18_VelocityIsMeanOfRecentSamples ==
    \A i \in Instances :
        LET recent == SliceLast(intent[i].signals.scrollPatterns, RecentPatterns)
        IN  (intent[i].mounted /\ Len(recent) > 0) =>
              recentVelocityOf(intent[i].signals)
                = JDiv(SumVelocity(recent), Num(Len(recent)))

-----------------------------------------------------------------------------
(* The card, visited again within a minute or after more than a minute.    *)

\* How many visits one run makes, how long a visit lasts and how long the
\* run lasts, in milliseconds.
MaxReturnVisits ==
    2

MaxElapsedVisit ==
    2000

MaxElapsedReturn ==
    63000

NextReturn ==
    \/ Elapse({1000}, MaxElapsedVisit)
    \/ Elapse({61000}, MaxElapsedReturn)
    \/ /\ memory["component"].memory.visitCount < MaxReturnVisits
       /\ ~memory["component"].currentSession.isActive
       /\ onEnter("component")
    \/ onLeave("component")
    \/ MemoryEffects("component")
    \/ MemoryRender("component")
    \/ \E t \in timers : TimerFires(t)

SpecReturn ==
    InitMemory /\ [][NextReturn]_vars

\* The type of a session of the given length.
TypeByDuration(duration) ==
    IF duration < 500 THEN "glance"
    ELSE IF duration < 2000 THEN "engage"
    ELSE "study"

\* At least one visit was recorded and the last one ended more than 60000 ms
\* before `at`.
ReturnsAfterAMinute(m, at) ==
    /\ m.memory.visitCount > 0
    /\ at - m.memory.lastVisit > 60000

\* C19: onLeave on an open session records a layer whose type follows the
\* duration (under 500 ms glance, under 2000 ms engage, otherwise study),
\* except that the type is return whenever a prior visit exists and more
\* than 60000 ms have passed since it.
C19_TypeFollowsDurationOrReturn ==
    [][\A i \in Instances :
         (memory[i].currentSession.isActive /\ lastOp' = [op |-> "onLeave", on |-> i]) =>
             LET layer == memory'[i].memory.layers[Len(memory'[i].memory.layers)]
             IN  layer.interactionType =
                   IF ReturnsAfterAMinute(memory[i], now) THEN "return"
                   ELSE TypeByDuration(now - memory[i].currentSession.startTime)]_vars

-----------------------------------------------------------------------------
(* The card, visited for two seconds at a time, days apart, and reset.     *)
(* Every visit lasts two seconds: time passes by two seconds during a      *)
(* visit and by two days between visits.                                   *)

\* How many visits one run makes, and how long its visits last together, in
\* milliseconds.
MaxDecayVisits ==
    7

MaxElapsedVisits ==
    14000

\* The days between visits, in milliseconds.
TwoDays ==
    2 * 24 * 60 * 60 * 1000

NextDecay ==
    \/ /\ memory["component"].currentSession.isActive
       /\ now = memory["component"].currentSession.startTime
       /\ Elapse({2000}, 2 * TwoDays + MaxElapsedVisits)
    \/ /\ ~memory["component"].currentSession.isActive
       /\ Elapse({TwoDays}, 2 * TwoDays + MaxElapsedVisits)
    \/ /\ nextTimer < 2 * MaxDecayVisits
       /\ ~memory["component"].currentSession.isActive
       /\ onEnter("component")
    \/ /\ now - memory["component"].currentSession.startTime >= 2000
       /\ onLeave("component")
    \/ MemoryEffects("component")
    \/ MemoryRender("component")
    \/ resetMemory("component")

SpecDecay ==
    InitMemory /\ [][NextDecay]_vars

\* C20: after any sequence of sessions and resets recognitionLevel and
\* revealProgress are in [0,1] and the decay factor applied to the previous
\* recognitionLevel is at least 0.5, on the first visit too; between two
\* resets revealProgress never decreases.
C20_ScoresBoundedAndRevealMonotone ==
    /\ [](\A i \in Instances :
            memory[i].mounted =>
              /\ memory[i].memory.recognitionLevel \in 0..One
              /\ InUnitInterval(memory[i].memory.revealProgress)
              /\ decayFactor(timeSinceLastVisit(memory[i])) >= One \div 2
              /\ decayFactor(timeSinceLastVisit(memory[i])) <= One)
    /\ [][\A i \in Instances :
            (memory[i].mounted /\ memory'[i].mounted /\ lastOp'.op # "resetMemory") =>
               ~JLt(memory'[i].memory.revealProgress, memory[i].memory.revealProgress)]_vars

\* Seven visits were recorded, revealProgress and recognitionLevel have
\* reached 1, and the last visit was days ago.
C20_FullyRevealedDaysAgo ==
    /\ memory["component"].memory.visitCount = 7
    /\ memory["component"].memory.revealProgress = Num(1)
    /\ memory["component"].memory.recognitionLevel = One
    /\ memory["component"].renderTime - memory["component"].memory.lastVisit >= TwoDays

-----------------------------------------------------------------------------
(* The card, visited once for ten seconds and then glanced at.             *)

\* How many visits one run makes, and how long it lasts, in milliseconds.
MaxSpeedVisits ==
    6

MaxElapsedSpeed ==
    10000

NextSpeed ==
    \/ /\ memory["component"].currentSession.isActive
       /\ Elapse({MaxElapsedSpeed}, MaxElapsedSpeed)
    \/ /\ nextTimer < 2 * MaxSpeedVisits
       /\ ~memory["component"].currentSession.isActive
       /\ onEnter("component")
    \/ onLeave("component")
    \/ MemoryEffects("component")
    \/ MemoryRender("component")
    \/ resetMemory("component")

SpecSpeed ==
    InitMemory /\ [][NextSpeed]_vars

\* The reveal speed of an average duration.
SpeedOf(avgDuration) ==
    IF JGt(avgDuration, Num(3000)) THEN "slow"
    ELSE IF JGt(avgDuration, Num(1500)) THEN "medium"
    ELSE "fast"

\* The mean duration of the last 5 layers.
MeanOfLastFive(layers) ==
    LET recent == SliceLast(layers, 5)
    IN  JDiv(Num(SumSeq([k \in DOMAIN recent |-> recent[k].duration])),
             Num(Len(recent)))

\* C21: after each completed session preferredRevealSpeed is the speed of
\* the average duration of the last 5 layers, the new one included (above
\* 3000 ms slow, above 1500 ms medium, otherwise fast); no older layer
\* influences it.
C21_SpeedFromLastFiveLayers ==
    \A i \in Instances :
        (memory[i].mounted /\ Len(memory[i].memory.layers) > 0) =>
            memory[i].memory.preferredRevealSpeed
              = SpeedOf(MeanOfLastFive(memory[i].memory.layers))

\* C22: onClick increments doubleClickCount exactly when the previous
\* onClick happened less than 400 ms earlier; a click that follows an
\* onHoverStart by less than 400 ms, with no click that close, is not
\* counted as a double-click.
C22_DoubleClickIsTwoClicksWithin400 ==
    [][\A i \in Instances :
         (/\ behavior[i].mounted
          /\ behavior[i].lastClickTime # <<>> \/ behavior[i].metrics.clickCount = 0
          /\ lastOp' = [op |-> "onClick", on |-> i]
          /\ behavior'[i].metrics.clickCount = behavior[i].metrics.clickCount + 1) =>
             behavior'[i].metrics.doubleClickCount =
                 behavior[i].metrics.doubleClickCount
                 + (IF /\ behavior[i].lastClickTime # <<>>
                       /\ now - behavior[i].lastClickTime[1] < 400
                    THEN 1 ELSE 0)]_vars

-----------------------------------------------------------------------------
(* The surface, scrolled to and fro by small and large steps.              *)

\* How many scrolls one run makes, and how long it lasts, in milliseconds.
MaxDirectionScrolls ==
    4

MaxElapsedDirections ==
    100

NextDirections ==
    \/ Elapse({MaxElapsedDirections}, MaxElapsedDirections)
    \/ \E scrollY \in {0, 3, 100} :
         /\ Len(intent["component"].signals.scrollPatterns) < MaxDirectionScrolls
         /\ onScroll("component", scrollY, ContainerRect.height)
    \/ IntentEffects("component")

SpecDirections ==
    InitIntent /\ [][NextDirections]_vars

\* The direction of the most recent recorded scroll that has one.
RECURSIVE LastMoved(_)
LastMoved(patterns) ==
    IF patterns = <<>> THEN "none"
    ELSE IF patterns[Len(patterns)].direction # "none"
    THEN patterns[Len(patterns)].direction
    ELSE LastMoved(SubSeq(patterns, 1, Len(patterns) - 1))

\* The position of the most recent recorded scroll, in px (0 before any).
LastScrolledTo(patterns, containerHeight) ==
    IF patterns = <<>> THEN Num(0)
    ELSE JMul(patterns[Len(patterns)].position, Num(containerHeight))

\* The direction of a scroll from one position to another.
DirectionOfMove(from, to) ==
    IF JGt(JSub(to, from), Num(5)) THEN "down"
    ELSE IF JLt(JSub(to, from), Num(-5)) THEN "up"
    ELSE "none"

\* C23: onScroll records the direction down for a position delta above
\* 5 px, up for a delta below -5 px and none otherwise, and increments
\* directionChanges exactly when the direction is not none and differs from
\* the most recent direction that was not none; a scroll of direction none
\* neither counts nor erases the remembered direction.
C23_DirectionChangesCountFlips ==
    [][\A i \in Instances :
         (/\ intent[i].mounted /\ ~intent[i].pending /\ intent'[i].pending
          /\ lastOp' = [op |-> "onScroll", on |-> i]) =>
             LET before == intent[i].signals.scrollPatterns
                 after == intent'[i].signals.scrollPatterns
                 direction ==
                     DirectionOfMove(LastScrolledTo(before, ContainerRect.height),
                                     LastScrolledTo(after, ContainerRect.height))
                 flips == /\ direction # "none"
                          /\ LastMoved(before) # "none"
                          /\ direction # LastMoved(before)
             IN  /\ after[Len(after)].direction = direction
                 /\ intent'[i].signals.directionChanges =
                      intent[i].signals.directionChanges + (IF flips THEN 1 ELSE 0)
                 /\ intent'[i].lastDirection = LastMoved(after)]_vars

\* A scroll down, a scroll of 3 px and a scroll up were recorded, and one
\* change of direction was counted.
C23_FlipAcrossSmallScroll ==
    /\ Len(intent["component"].signals.scrollPatterns) = 3
    /\ intent["component"].signals.scrollPatterns[1].direction = "down"
    /\ intent["component"].signals.scrollPatterns[2].direction = "none"
    /\ intent["component"].signals.scrollPatterns[3].direction = "up"
    /\ intent["component"].signals.directionChanges = 1

-----------------------------------------------------------------------------
(* The surface, scrolled a few times with pauses long enough to count.     *)

\* How many scrolls one run makes, and how long it lasts, in milliseconds.
MaxPauseScrolls ==
    3

MaxElapsedPauses ==
    1600

NextPauses ==
    \/ Elapse({400}, MaxElapsedPauses)
    \/ /\ nextTimer <= MaxPauseScrolls
       /\ onScroll("component", intent["component"].lastScrollPosition + 40,
                   ContainerRect.height)
    \/ \E t \in timers : TimerFires(t)
    \/ IntentEffects("component")
    \/ IntentTick("component")
    \/ resetSignals("component")

SpecPauses ==
    InitIntent /\ [][NextPauses]_vars

\* The pause timers of instance i that are pending.
PendingPauses(i) ==
    {t \in timers : t.kind = "pause" /\ t.owner = i}

\* C24: each onScroll leads to at most one pauseCount increment, which
\* happens only when 800 ms have passed with no further onScroll (a scroll
\* that arrives earlier cancels the timer), so pauseCount never exceeds
\* the number of onScroll calls (each call takes one timer id).
C24_OnePauseAtMostPerScroll ==
    /\ [](\A i \in Instances :
            intent[i].mounted =>
              /\ intent[i].signals.pauseCount + Cardinality(PendingPauses(i))
                   <= nextTimer - 1
              /\ Cardinality(PendingPauses(i)) <= 1)
    /\ [][\A i \in Instances :
            (/\ intent[i].mounted
             /\ intent'[i].signals.pauseCount # intent[i].signals.pauseCount
             /\ lastOp'.op # "resetSignals") =>
                /\ lastOp' = [op |-> "timer", on |-> "pause"]
                /\ intent'[i].signals.pauseCount = intent[i].signals.pauseCount + 1
                /\ now - intent[i].lastScrollTime >= 800]_vars

\* Two scrolls were made 400 ms apart, the second one cancelled the timer
\* of the first, and its own timer fired: one pause was counted.
C24_OnePauseAfterTwoScrolls ==
    /\ Len(intent["component"].signals.scrollPatterns) = 2
    /\ intent["component"].signals.scrollPatterns[2].timestamp
         = intent["component"].signals.scrollPatterns[1].timestamp + 400
    /\ intent["component"].signals.pauseCount = 1
    /\ lastOp = [op |-> "timer", on |-> "pause"]
    /\ timers = {}

-----------------------------------------------------------------------------
(* C25: what the memory counts of the sessions closed by onLeave           *)

\* Sessions of 0 or MaxElapsedSpeed milliseconds, scrolled deeply or not at
\* all, with resets between and within them.
NextClosedSessions ==
    \/ NextSpeed
    \/ /\ memory["component"].currentSession.isActive
       /\ memory["component"].currentSession.scrollDepth = Num(0)
       /\ onScrollMemory("component", Fin(6, 10))

SpecClosedSessions ==
    InitMemory /\ [][NextClosedSessions]_vars

\* The step is onLeave closing the session of instance i.
ClosesSession(i) ==
    /\ memory[i].currentSession.isActive
    /\ ~memory'[i].currentSession.isActive
    /\ lastOp' = [op |-> "onLeave", on |-> i]

\* C25: visitCount is the number of sessions closed by onLeave since the
\* last reset and totalTimeSpent the sum of their durations: each onLeave
\* that closes a session adds 1 to visitCount, the session's duration to
\* totalTimeSpent and exactly one layer, which becomes the most recent one
\* and gives currentMood; resetMemory sets the counts to 0 and the mood to
\* curious; no other step changes them.
C25_MemoryCountsClosedSessions ==
    /\ [](\A i \in Instances :
            memory[i].mounted =>
              /\ memory[i].memory.visitCount = Len(memory[i].memory.layers)
              /\ memory[i].memory.totalTimeSpent =
                    SumSeq([k \in DOMAIN memory[i].memory.layers |->
                              memory[i].memory.layers[k].duration]))
    /\ [][\A i \in Instances :
            memory[i].mounted /\ memory'[i].mounted =>
              IF ClosesSession(i)
              THEN /\ memory'[i].memory.visitCount = memory[i].memory.visitCount + 1
                   /\ memory'[i].memory.totalTimeSpent =
                        memory[i].memory.totalTimeSpent
                        + (now - memory[i].currentSession.startTime)
                   /\ memory'[i].memory.layers =
                        memory[i].memory.layers \o <<newLayer(memory[i])>>
                   /\ currentMood(memory'[i].memory) =
                        newLayer(memory[i]).emotionalSignature
              ELSE IF lastOp' = [op |-> "resetMemory", on |-> i]
                      /\ memory'[i].pending
              THEN /\ memory'[i].memory.visitCount = 0
                   /\ memory'[i].memory.totalTimeSpent = 0
                   /\ memory'[i].memory.layers = <<>>
                   /\ currentMood(memory'[i].memory) = "curious"
              ELSE /\ memory'[i].memory.visitCount = memory[i].memory.visitCount
                   /\ memory'[i].memory.totalTimeSpent = memory[i].memory.totalTimeSpent
                   /\ memory'[i].memory.layers = memory[i].memory.layers]_vars

\* Three sessions were closed since the last reset, a thorough one of
\* MaxElapsedSpeed milliseconds first and a curious one of 0 ms last.
C25_ThreeSessionsClosedAfterReset ==
    /\ lastOp = [op |-> "onLeave", on |-> "component"]
    /\ nextTimer > 7
    /\ memory["component"].memory.visitCount = 3
    /\ memory["component"].memory.totalTimeSpent = MaxElapsedSpeed
    /\ memory["component"].memory.layers[1].emotionalSignature = "thorough"
    /\ currentMood(memory["component"].memory) = "curious"

-----------------------------------------------------------------------------
(* C26: the hover count under an open hover                                *)

\* C26: while a hover session is open hoverCount is at least 1, so the
\* onHoverEnd that closes it divides by a positive count, and
\* averageHoverDuration is a finite non-negative number in every state,
\* resets during an open hover included.
C26_AverageHoverDurationFinite ==
    \A i \in Instances :
        behavior[i].mounted =>
            /\ behavior[i].isHovering => behavior[i].metrics.hoverCount >= 1
            /\ behavior[i].metrics.averageHoverDuration.k = "fin"
            /\ behavior[i].metrics.averageHoverDuration.n >= 0

-----------------------------------------------------------------------------
(* C27: direct approaches within one hover                                 *)

\* How many hover sessions and pointer moves one run reports.
MaxApproachHovers ==
    2

MaxApproachMoves ==
    5

\* The pointer enters the button at its corner (30, -10) and moves, over the
\* button, between the corner and the point (44, 0) near the centre.
NextApproaches ==
    \/ /\ behavior["component"].metrics.hoverCount < MaxApproachHovers
       /\ ~behavior["component"].isHovering
       /\ onHoverStart("component", 30, -10)
    \/ onHoverEnd("component")
    \/ \E p \in {<<30, -10>>, <<44, 0>>} :
         /\ behavior["component"].isHovering
         /\ Len(behavior["component"].metrics.hoverVelocity) < MaxApproachMoves
         /\ onMouseMove("component", p[1], p[2])
    \/ BehaviorEffects("component")

SpecApproaches ==
    InitBehavior /\ [][NextApproaches]_vars

\* C27: directApproaches is at most hoverCount in every state, so that the
\* ratio of the two, and with it the confidence the personality rules
\* compare, is at most 1.
C27_DirectApproachesAtMostHovers ==
    \A i \in Instances :
        behavior[i].mounted =>
            behavior[i].metrics.directApproaches <= behavior[i].metrics.hoverCount

-----------------------------------------------------------------------------
(* C28: hovers that ended without a click                                  *)

\* C28: hoverWithoutClick is never negative and counts only the closed
\* hover sessions without a click: after one hover session, closed, with
\* the only click made while it was open, hoverWithoutClick is 0.
C28_HoverWithClickNotCounted ==
    \A i \in Instances :
        behavior[i].mounted =>
            /\ behavior[i].metrics.hoverWithoutClick >= 0
            /\ (/\ behavior[i].metrics.hoverCount = 1
                /\ behavior[i].metrics.clickCount = 1
                /\ ~behavior[i].isHovering
                /\ behavior[i].lastClickTime # <<>>
                /\ behavior[i].hoverStartTime < behavior[i].lastClickTime[1]
                /\ behavior[i].lastClickTime[1]
                     < behavior[i].hoverStartTime + behavior[i].metrics.totalHoverDuration)
               => behavior[i].metrics.hoverWithoutClick = 0

-----------------------------------------------------------------------------
(* C29: what is left of the scrolls made before resetSignals               *)

\* C29: pauseCount and directionChanges are 0 until events delivered since
\* the last reset produce them: with no scroll recorded there is no pause
\* and no direction change, and the first scroll recorded changes no
\* direction.
C29_NothingCountedBeforeTheFirstScroll ==
    \A i \in Instances :
        intent[i].mounted =>
            /\ Len(intent[i].signals.scrollPatterns) = 0 =>
                  intent[i].signals.pauseCount = 0
            /\ Len(intent[i].signals.scrollPatterns) <= 1 =>
                  intent[i].signals.directionChanges = 0

-----------------------------------------------------------------------------
(* C30: the surface after the last input event.  Timers, the one-second    *)
(* interval and the effects run when they are due; the clock does not pass *)
(* a callback that is due.                                                 *)

\* How many scrolls one run makes, until when they arrive and how long the
\* run lasts, in milliseconds.
MaxIdleScrolls ==
    5

InputWindow ==
    500

MaxElapsedIdle ==
    8000

\* No input event arrives any more.
InputClosed ==
    now > StartTime + InputWindow

\* What the clock and the timer queue do without input: time passes, the
\* pause timer and the interval fire.
TimeSteps ==
    \/ /\ \A t \in timers : t.due > now
       /\ intent["component"].tickDue > now
       /\ Elapse({100}, MaxElapsedIdle)
    \/ \E t \in timers : TimerFires(t)
    \/ IntentTick("component")

NextIdle ==
    \/ TimeSteps
    \/ IntentEffects("component")
    \/ /\ ~InputClosed
       /\ Len(intent["component"].signals.scrollPatterns) < MaxIdleScrolls
       /\ onScroll("component", intent["component"].lastScrollPosition + 40,
                   ContainerRect.height)

\* The event loop runs every callback that is due and the clock goes on;
\* the effects of a render always run (IntentEffects is enabled exactly
\* while pending holds and ends it, so the last conjunct is weak fairness
\* of IntentEffects).
SpecIdle ==
    /\ InitIntent /\ [][NextIdle]_vars
    /\ WF_vars(TimeSteps)
    /\ []<>(~intent["component"].pending)

=============================================================================
